---- MODULE Spec2Model ----
(***************************************************************************)
(* MailCleaner: the message store (table emails), the sender aggregate     *)
(* (table sender_stats), the dashboard cache (settings row                 *)
(* 'dashboard_cache') and the categorization policy.                       *)
(*                                                                         *)
(* Tables are sequences in rowid order.  SQL NULL is the value NULL, and   *)
(* SQL comparisons with NULL are never true.  A datetime is a pair         *)
(* <<wall, off>>: the wall-clock reading and the UTC offset, both in       *)
(* hours; its instant is wall - off.  The store keeps date.isoformat(),    *)
(* a text, and SQL compares texts byte by byte.  An optional record (the   *)
(* cache entry, the result of fetchone()) is a sequence of length 0 or 1.  *)
(***************************************************************************)
EXTENDS Integers, Sequences, FiniteSets, TLC

VARIABLES
    emails,            \* table emails, in rowid order
    sender_stats,      \* table sender_stats, in rowid order
    dashboard_cache,   \* settings['dashboard_cache'], <<>> when absent
    upserts,           \* history: per id, the last Email object upserted
    last,              \* history: the operation that completed last
    txn,               \* the open write transaction of refresh_sender_stats
    observed,          \* what the concurrent reader of sender_stats read
    msg,               \* the Email handed to categorize
    clf,               \* the classifier: is_trained and what predict_proba gives
    verdict,           \* the (category, confidence) categorize returned
    timers,            \* the threading.Timer objects created so far
    refresh_timer,     \* web_app.refresh_timer: 0 for None, else a timer
    burst,             \* history: calls, bursts and refreshes of the timers
    served,            \* the dashboard data the last page read responded with
    trainer,           \* EmailCategorizer.pipeline, is_trained, the model file
    sync_state,        \* web_app.sync_state
    sync_stop_event,   \* web_app.sync_stop_event: is it set
    sync_threads,      \* the background_sync threads started so far
    backoff,           \* the _exponential_backoff call in progress
    refresher,         \* the refresh_all_stats call running statement by statement
    feedback,          \* the user_feedback and ml_training_data tables
    mailbox,           \* the timestamps of the messages the provider holds
    sync_window,       \* the settings sync_min_date and sync_max_date, 0 for ''
    fetch_requests,    \* the POST /api/fetch requests past the status guard
    triggers           \* the trigger_background_refresh calls in progress

dbVars == <<emails, sender_stats, dashboard_cache, upserts, last>>
txnVars == <<txn, observed>>
catVars == <<msg, clf, verdict>>
timerVars == <<timers, refresh_timer, burst>>
pageVars == <<served>>
trainVars == <<trainer>>
syncVars == <<sync_state, sync_stop_event, sync_threads>>
webVars == <<timerVars, pageVars, trainVars, syncVars>>
gmailVars == <<backoff, mailbox>>
settingsVars == <<sync_window>>
threadVars == <<refresher>>
feedbackVars == <<feedback>>
requestVars == <<fetch_requests, triggers>>
auxVars == <<gmailVars, threadVars, feedbackVars, settingsVars, requestVars>>
besidesGmail == <<threadVars, feedbackVars, settingsVars, requestVars>>
besidesThreads == <<gmailVars, feedbackVars, settingsVars, requestVars>>
besidesFeedback == <<gmailVars, threadVars, settingsVars, requestVars>>
besidesRequests == <<gmailVars, threadVars, feedbackVars, settingsVars>>
vars == <<dbVars, txnVars, catVars, webVars, auxVars>>

NULL == "NULL"

(***************************************************************************)
(* Bounds of the model.                                                    *)
(***************************************************************************)
MaxId == 2
MaxBatch == 2

Ids == 1..MaxId

(***************************************************************************)
(* Collations.  SQLite compares TEXT byte by byte; each sequence lists the *)
(* values the model uses in that order.                                    *)
(***************************************************************************)
SenderOrder ==
    <<"a@x", "b@x", "c@x", "d@x", "e@x", "f@x", "g@x", "h@x", "i@x", "j@x", "k@x">>
NameOrder == <<"Ann", "Zed">>
CategoryOrder ==
    <<"ads", "important", "newsletter", "personal", "promotions", "social",
      "spam", "uncertain">>
ZoneOrder == <<"+00:00", "+02:00">>
ZoneOffset == <<0, 2>>

RankIn(order, v) == CHOOSE i \in 1..Len(order) : order[i] = v

Range(s) == {s[i] : i \in 1..Len(s)}

(***************************************************************************)
(* class EmailCategory                                                     *)
(***************************************************************************)
EmailCategory == Range(CategoryOrder)

(***************************************************************************)
(* datetime.isoformat() and datetime.fromisoformat(): an aware datetime    *)
(* <<wall, off>> is written as the wall-clock reading followed by the      *)
(* offset, so the text orders by wall-clock reading first.                 *)
(***************************************************************************)
isoformat(d) ==
    [wall |-> d[1], zone |-> ZoneOrder[RankIn(ZoneOffset, d[2])]]

fromisoformat(t) == <<t.wall, ZoneOffset[RankIn(ZoneOrder, t.zone)]>>

\* The instant a datetime denotes (datetime.timestamp()).
timestamp(d) == d[1] - d[2]

\* The place of an ISO text in SQLite's byte order (a larger key is a
\* greater text).
TextKey(t) == t.wall * (Len(ZoneOrder) + 1) + RankIn(ZoneOrder, t.zone)

(***************************************************************************)
(* Database.save_email / save_emails_batch: the parameter tuple bound to   *)
(* INSERT OR REPLACE, and Database._row_to_email, its inverse on reads.    *)
(***************************************************************************)
ToRow(e) ==
    [id |-> e.id,
     sender |-> e.sender,
     sender_email |-> e.sender_email,
     date |-> isoformat(e.date),
     is_read |-> IF e.is_read THEN 1 ELSE 0,
     category |-> e.category,
     unsubscribe_link |-> e.unsubscribe_link,
     unsubscribe_email |-> e.unsubscribe_email,
     user_action |-> e.user_action]

row_to_email(r) ==
    [id |-> r.id,
     sender |-> r.sender,
     sender_email |-> r.sender_email,
     date |-> fromisoformat(r.date),
     is_read |-> r.is_read # 0,
     category |-> r.category,
     unsubscribe_link |-> r.unsubscribe_link,
     unsubscribe_email |-> r.unsubscribe_email,
     user_action |-> r.user_action]

(***************************************************************************)
(* INSERT OR REPLACE INTO emails: id is the PRIMARY KEY, so the row that   *)
(* holds the id is deleted and the new row gets the next rowid.            *)
(***************************************************************************)
\* A faulty variant: a plain INSERT into a table without the key.
InsertOnly(table, e) == Append(table, ToRow(e))

InsertOrReplace(table, e) ==
    Append(SelectSeq(table, LAMBDA r : r.id # e.id), ToRow(e))

RECURSIVE InsertAll(_, _)
InsertAll(table, batch) ==
    IF batch = <<>> THEN table
    ELSE InsertAll(InsertOrReplace(table, Head(batch)), Tail(batch))

\* History: the Email last upserted under each id, and whether
\* mark_emails_deleted hit it since.
RECURSIVE NoteUpserts(_, _)
NoteUpserts(u, batch) ==
    IF batch = <<>> THEN u
    ELSE NoteUpserts(
             [u EXCEPT ![Head(batch).id] =
                 <<[email |-> Head(batch), marked |-> FALSE]>>],
             Tail(batch))

\* History: the operation that completed last; whether it overwrote a
\* stored id; whether it repeats the operation before it.
Done(op) == [op |-> op, replaced |-> FALSE, repeated |-> FALSE]

\* Does the batch upsert an id that is stored, or one it upserts twice?
Replaces(table, batch) ==
    \E k \in 1..Len(batch) :
        \/ \E i \in 1..Len(table) : table[i].id = batch[k].id
        \/ \E j \in 1..(k - 1) : batch[j].id = batch[k].id

\* Database.get_email: <<>> for None, else the one Email (fetchone()).
get_email(table, email_id) ==
    LET hits == SelectSeq(table, LAMBDA r : r.id = email_id)
    IN  IF hits = <<>> THEN <<>> ELSE <<row_to_email(hits[1])>>

(***************************************************************************)
(* The WHERE clause every active-set query carries:                        *)
(*   (user_action IS NULL OR user_action != 'delete')                      *)
(***************************************************************************)
SqlNe(a, b) == a # NULL /\ b # NULL /\ a # b

\* Faulty variants: the IS NULL disjunct forgotten; the literal mistyped.
IsActiveNotNull(r) == SqlNe(r.user_action, "delete")

IsActiveMistyped(r) == r.user_action = NULL \/ SqlNe(r.user_action, "deleted")

IsActive(r) == r.user_action = NULL \/ SqlNe(r.user_action, "delete")

Active(table) == SelectSeq(table, IsActive)


(***************************************************************************)
(* ORDER BY key DESC: SQLite's sorter keeps rows of equal key in the order *)
(* the scan delivered them.  Sorts a sequence of <<key, row>> pairs.       *)
(***************************************************************************)
InsertByKeyDesc(p, sorted) ==
    LET n == Cardinality({i \in 1..Len(sorted) : sorted[i][1] >= p[1]})
    IN  SubSeq(sorted, 1, n) \o <<p>> \o SubSeq(sorted, n + 1, Len(sorted))

RECURSIVE SortByKeyDesc(_)
SortByKeyDesc(pairs) ==
    IF pairs = <<>> THEN <<>>
    ELSE InsertByKeyDesc(pairs[Len(pairs)],
                         SortByKeyDesc(SubSeq(pairs, 1, Len(pairs) - 1)))

Rows(pairs) == [i \in 1..Len(pairs) |-> pairs[i][2]]

\* LIMIT n OFFSET k
Limit(s, n, k) ==
    IF k >= Len(s) THEN <<>>
    ELSE SubSeq(s, k + 1, IF k + n > Len(s) THEN Len(s) ELSE k + n)

OrderByDateDesc(rows) ==
    Rows(SortByKeyDesc([i \in 1..Len(rows) |-> <<TextKey(rows[i].date), rows[i]>>]))

(***************************************************************************)
(* The row queries of the active set.                                      *)
(***************************************************************************)
\* Database.get_emails_by_category
get_emails_by_category(table, category, limit, offset) ==
    Limit(OrderByDateDesc(SelectSeq(table,
              LAMBDA r : r.category # NULL /\ r.category = category /\ IsActive(r))),
          limit, offset)

\* Database.get_emails_by_sender
get_emails_by_sender(table, sender_email, limit, offset) ==
    Limit(OrderByDateDesc(SelectSeq(table,
              LAMBDA r : r.sender_email = sender_email /\ IsActive(r))),
          limit, offset)

\* Database.get_email_ids_by_sender
get_email_ids_by_sender(table, sender_email) ==
    LET rows == SelectSeq(table, LAMBDA r : r.sender_email = sender_email /\ IsActive(r))
    IN  [i \in 1..Len(rows) |-> rows[i].id]

\* Database.get_email_ids_by_category
get_email_ids_by_category(table, category) ==
    LET rows == SelectSeq(table,
                    LAMBDA r : r.category # NULL /\ r.category = category /\ IsActive(r))
    IN  [i \in 1..Len(rows) |-> rows[i].id]

\* Database.get_all_emails
get_all_emails(table, read_filter, limit, offset) ==
    Limit(OrderByDateDesc(SelectSeq(table,
              LAMBDA r : /\ read_filter = "read" => r.is_read = 1
                         /\ read_filter = "unread" => r.is_read = 0
                         /\ IsActive(r))),
          limit, offset)


(***************************************************************************)
(* GROUP BY sender_email over the rows a WHERE clause kept: the scan runs  *)
(* on idx_emails_sender, so groups come out in sender_email order and the  *)
(* rows of one group in rowid order.                                       *)
(***************************************************************************)
GroupKeys(rows) ==
    SelectSeq(SenderOrder, LAMBDA s : \E i \in 1..Len(rows) : rows[i].sender_email = s)

Group(rows, s) == SelectSeq(rows, LAMBDA r : r.sender_email = s)

\* COUNT(*) and SUM(CASE WHEN is_read = 0 THEN 1 ELSE 0 END)
Count(rows) == Len(rows)

Unread(rows) == Len(SelectSeq(rows, LAMBDA r : r.is_read = 0))

\* MAX(date): the greatest text
MaxDate(rows) ==
    rows[CHOOSE i \in 1..Len(rows) :
        \A j \in 1..Len(rows) : TextKey(rows[j].date) <= TextKey(rows[i].date)].date

\* MAX(sender): the greatest text
MaxSender(rows) ==
    NameOrder[CHOOSE k \in 1..Len(NameOrder) :
        /\ \E i \in 1..Len(rows) : rows[i].sender = NameOrder[k]
        /\ \A i \in 1..Len(rows) : RankIn(NameOrder, rows[i].sender) <= k]

\* MAX(CASE WHEN unsubscribe_link IS NOT NULL OR unsubscribe_email IS NOT NULL
\*          THEN 1 ELSE 0 END)
HasUnsubscribe(rows) ==
    IF \E i \in 1..Len(rows) :
           rows[i].unsubscribe_link # NULL \/ rows[i].unsubscribe_email # NULL
    THEN 1 ELSE 0

\* A bare column beside MAX(date): the first row scanned that holds the
\* greatest date.
FirstOfMaxDate(rows) ==
    rows[CHOOSE i \in 1..Len(rows) :
        /\ \A j \in 1..Len(rows) : TextKey(rows[j].date) <= TextKey(rows[i].date)
        /\ \A j \in 1..(i - 1) : TextKey(rows[j].date) < TextKey(rows[i].date)]

\* A bare column beside MAX(id): the row that holds the greatest id.
RowOfMaxId(rows) ==
    rows[CHOOSE i \in 1..Len(rows) : \A j \in 1..Len(rows) : rows[j].id <= rows[i].id]

(***************************************************************************)
(* Database.refresh_sender_stats: DELETE FROM sender_stats, then INSERT    *)
(* ... SELECT ... GROUP BY sender_email, in one transaction.               *)
(***************************************************************************)
SenderAggregate(table) ==
    LET rows == Active(table)
        keys == GroupKeys(rows)
    IN  [k \in 1..Len(keys) |->
            LET g == Group(rows, keys[k])
            IN  [email |-> keys[k],
                 name |-> MaxSender(g),
                 total_emails |-> Count(g),
                 unread_count |-> Unread(g),
                 last_received |-> MaxDate(g),
                 has_unsubscribe |-> HasUnsubscribe(g)]]

DeleteFromSenderStats(stats) == <<>>

InsertIntoSenderStats(stats, table) == stats \o SenderAggregate(table)

RefreshSenderStats(stats, table) ==
    InsertIntoSenderStats(DeleteFromSenderStats(stats), table)

\* Database.get_total_senders_count
get_total_senders_count(stats) == Len(stats)

\* Database.get_sender_stats(limit, offset): SenderStats objects
get_sender_stats(stats, limit, offset) ==
    LET rows == Limit(Rows(SortByKeyDesc(
                    [i \in 1..Len(stats) |-> <<stats[i].total_emails, stats[i]>>])),
                    limit, offset)
    IN  [i \in 1..Len(rows) |->
            [email |-> rows[i].email,
             name |-> rows[i].name,
             total_emails |-> rows[i].total_emails,
             unread_count |-> rows[i].unread_count,
             last_received |-> fromisoformat(rows[i].last_received),
             has_unsubscribe |-> rows[i].has_unsubscribe # 0]]

(***************************************************************************)
(* Database.get_top_sender_groups                                          *)
(***************************************************************************)
\* A faulty variant: the aggregate taken over every row, deleted or not.
get_top_sender_groups_any_action(table, limit) ==
    LET rows == table
        keys == GroupKeys(rows)
        groups == [k \in 1..Len(keys) |->
                      LET g == Group(rows, keys[k])
                      IN  [sender_email |-> keys[k],
                           sender |-> FirstOfMaxDate(g).sender,
                           total |-> Count(g),
                           unread |-> Unread(g),
                           has_unsubscribe |-> HasUnsubscribe(g),
                           last_received |-> MaxDate(g)]]
    IN  Limit(Rows(SortByKeyDesc(
            [k \in 1..Len(groups) |-> <<groups[k].total, groups[k]>>])), limit, 0)

get_top_sender_groups(table, limit) ==
    LET rows == Active(table)
        keys == GroupKeys(rows)
        groups == [k \in 1..Len(keys) |->
                      LET g == Group(rows, keys[k])
                      IN  [sender_email |-> keys[k],
                           sender |-> FirstOfMaxDate(g).sender,
                           total |-> Count(g),
                           unread |-> Unread(g),
                           has_unsubscribe |-> HasUnsubscribe(g),
                           last_received |-> MaxDate(g)]]
    IN  Limit(Rows(SortByKeyDesc(
            [k \in 1..Len(groups) |-> <<groups[k].total, groups[k]>>])), limit, 0)

(***************************************************************************)
(* Database.get_category_stats: GROUP BY category over the active rows     *)
(* whose category IS NOT NULL, in category order.                          *)
(***************************************************************************)
get_category_stats(table) ==
    LET rows == SelectSeq(table, LAMBDA r : r.category # NULL /\ IsActive(r))
        keys == SelectSeq(CategoryOrder,
                    LAMBDA c : \E i \in 1..Len(rows) : rows[i].category = c)
    IN  [k \in 1..Len(keys) |->
            LET g == SelectSeq(rows, LAMBDA r : r.category = keys[k])
            IN  [category |-> keys[k], count |-> Count(g), unread |-> Unread(g)]]

(***************************************************************************)
(* Database.get_leaderboard_stats                                          *)
(***************************************************************************)
LeaderboardLimit == 5

Chatty(table) ==
    LET rows == Active(table)
        keys == GroupKeys(rows)
        groups == [k \in 1..Len(keys) |->
                      LET g == Group(rows, keys[k])
                      IN  [sender_email |-> keys[k],
                           sender |-> g[1].sender,
                           count |-> Count(g)]]
    IN  Limit(Rows(SortByKeyDesc(
            [k \in 1..Len(groups) |-> <<groups[k].count, groups[k]>>])),
            LeaderboardLimit, 0)

Spammers(table) ==
    LET rows == Active(table)
        keys == GroupKeys(rows)
        groups == [k \in 1..Len(keys) |->
                      LET g == Group(rows, keys[k])
                      IN  [sender_email |-> keys[k],
                           sender |-> g[1].sender,
                           count |-> Count(g),
                           unread |-> Unread(g)]]
    IN  Limit(Rows(SortByKeyDesc(
            [k \in 1..Len(groups) |->
                <<groups[k].unread * (Len(table) + 1) + groups[k].count, groups[k]>>])),
            LeaderboardLimit, 0)

get_leaderboard_stats(table) ==
    [chatty |-> Chatty(table), spammers |-> Spammers(table)]


(***************************************************************************)
(* Database.get_subscription_stats: the candidates (senders with more than *)
(* one active newsletter/promotions message), each with the unsubscribe    *)
(* fields of the sample row                                                *)
(*   SELECT ... FROM emails WHERE sender_email = ? ORDER BY date DESC      *)
(*   LIMIT 1                                                               *)
(***************************************************************************)
SampleRow(table, sender_email) ==
    Limit(OrderByDateDesc(SelectSeq(table, LAMBDA r : r.sender_email = sender_email)),
          1, 0)

SubscriptionCandidates(table, limit) ==
    LET rows == SelectSeq(table,
                    LAMBDA r : /\ r.category # NULL
                               /\ r.category \in {"newsletter", "promotions"}
                               /\ IsActive(r))
        keys == SelectSeq(GroupKeys(rows), LAMBDA s : Count(Group(rows, s)) > 1)
        groups == [k \in 1..Len(keys) |->
                      LET g == Group(rows, keys[k])
                      IN  [sender_email |-> keys[k],
                           sender |-> RowOfMaxId(g).sender,
                           count |-> Count(g),
                           unread_count |-> Unread(g),
                           last_received_date |-> MaxDate(g),
                           sample_id |-> RowOfMaxId(g).id]]
    IN  Limit(Rows(SortByKeyDesc(
            [k \in 1..Len(groups) |-> <<groups[k].count, groups[k]>>])), limit, 0)

get_subscription_stats(table, limit) ==
    LET cands == SubscriptionCandidates(table, limit)
    IN  [k \in 1..Len(cands) |->
            LET sample == SampleRow(table, cands[k].sender_email)
            IN  [sender_email |-> cands[k].sender_email,
                 sender |-> cands[k].sender,
                 count |-> cands[k].count,
                 unread_count |-> cands[k].unread_count,
                 last_received_date |-> cands[k].last_received_date,
                 sample_id |-> cands[k].sample_id,
                 unsubscribe_link |-> sample[1].unsubscribe_link,
                 unsubscribe_email |-> sample[1].unsubscribe_email]]

(***************************************************************************)
(* Database.refresh_global_stats: the dashboard data it computes from the  *)
(* emails table and the sender_stats table, and writes with set_setting.   *)
(***************************************************************************)
TopSendersLimit == 10
ZenBelow == 20

RECURSIVE SumOf(_, _)
SumOf(s, field) ==
    IF s = <<>> THEN 0 ELSE s[1][field] + SumOf(Tail(s), field)

CountOf(stats, category) ==
    SumOf(SelectSeq(stats, LAMBDA c : c.category = category), "count")

\* A faulty variant: the junk rule is tested before the important rule.
MoodJunkFirst(stats, total_emails) ==
    LET imp == CountOf(stats, "important")
        junk == CountOf(stats, "promotions") + CountOf(stats, "ads") + CountOf(stats, "spam")
        social == CountOf(stats, "social")
        news == CountOf(stats, "newsletter")
        personal == CountOf(stats, "personal")
    IN  IF ~(total_emails > 0) THEN "Balanced"
        ELSE IF total_emails < ZenBelow THEN "Zen"
        ELSE IF 10 * junk > 5 * total_emails THEN "Shopaholic"
        ELSE IF 10 * imp > 3 * total_emails THEN "On Fire"
        ELSE IF 10 * social > 4 * total_emails THEN "Socialite"
        ELSE IF 10 * news > 4 * total_emails THEN "News Junkie"
        ELSE IF 10 * personal > 3 * total_emails THEN "Loved"
        ELSE "Chill"

Mood(stats, total_emails) ==
    LET imp == CountOf(stats, "important")
        junk == CountOf(stats, "promotions") + CountOf(stats, "ads") + CountOf(stats, "spam")
        social == CountOf(stats, "social")
        news == CountOf(stats, "newsletter")
        personal == CountOf(stats, "personal")
    IN  IF ~(total_emails > 0) THEN "Balanced"
        ELSE IF total_emails < ZenBelow THEN "Zen"
        ELSE IF 10 * imp > 3 * total_emails THEN "On Fire"
        ELSE IF 10 * junk > 5 * total_emails THEN "Shopaholic"
        ELSE IF 10 * social > 4 * total_emails THEN "Socialite"
        ELSE IF 10 * news > 4 * total_emails THEN "News Junkie"
        ELSE IF 10 * personal > 3 * total_emails THEN "Loved"
        ELSE "Chill"

\* Database.refresh_global_stats: dashboard_data, from the four results read.
DashboardFrom(stats, top, leaderboard, total_senders) ==
    LET total_emails == SumOf(stats, "count")
        total_unread == SumOf(stats, "unread")
        deletable == SumOf(SelectSeq(stats,
                         LAMBDA c : c.category \notin {"important", "uncertain", "personal"}),
                         "count")
    IN  [total_emails |-> total_emails,
         total_unread |-> total_unread,
         total_senders |-> total_senders,
         deletable |-> deletable,
         would_keep |-> total_emails - deletable,
         categories |-> stats,
         leaderboard |-> leaderboard,
         mood |-> Mood(stats, total_emails),
         top_senders |-> [i \in 1..Len(top) |->
                             [email |-> top[i].email,
                              name |-> top[i].name,
                              count |-> top[i].total_emails,
                              unread |-> top[i].unread_count]]]

\* Database.refresh_global_stats run on one state of the two tables.
DashboardData(table, senderStats) ==
    DashboardFrom(get_category_stats(table),
                  get_sender_stats(senderStats, TopSendersLimit, 0),
                  get_leaderboard_stats(table),
                  get_total_senders_count(senderStats))

\* A faulty variant: refresh_global_stats() runs first, on the sender_stats
\* table as the call found it.
RefreshAllStatsGlobalFirst(table, senderStats) ==
    [sender_stats |-> RefreshSenderStats(senderStats, table),
     dashboard_cache |-> <<DashboardData(table, senderStats)>>]

\* Database.refresh_all_stats: the two tables' contents after
\* refresh_sender_stats() and refresh_global_stats(), in that order.
RefreshAllStats(table, senderStats) ==
    LET rebuilt == RefreshSenderStats(senderStats, table)
    IN  [sender_stats |-> rebuilt, dashboard_cache |-> <<DashboardData(table, rebuilt)>>]

\* A faulty variant: the rows are removed (DELETE FROM emails WHERE id IN (...)).
MarkDeletedPurging(table, email_ids) ==
    SelectSeq(table, LAMBDA r : r.id \notin email_ids)

\* Database.mark_emails_deleted:
\*   UPDATE emails SET user_action = 'delete' WHERE id IN (...)
MarkDeleted(table, email_ids) ==
    [i \in 1..Len(table) |->
        IF table[i].id \in email_ids
        THEN [table[i] EXCEPT !.user_action = "delete"]
        ELSE table[i]]


(***************************************************************************)
(* The operations of Database, each one transaction.  A writer waits for   *)
(* the write lock, so none starts while refresh_sender_stats holds it.     *)
(***************************************************************************)
save_email(e) ==
    /\ ~txn.open
    /\ emails' = InsertOrReplace(emails, e)
    /\ upserts' = NoteUpserts(upserts, <<e>>)
    /\ last' = [Done("save_email") EXCEPT !.replaced = Replaces(emails, <<e>>)]
    /\ UNCHANGED <<sender_stats, dashboard_cache, txnVars, catVars, auxVars, webVars>>

save_emails_batch(batch) ==
    /\ ~txn.open
    /\ emails' = InsertAll(emails, batch)
    /\ upserts' = NoteUpserts(upserts, batch)
    /\ last' = [Done("save_emails_batch") EXCEPT !.replaced = Replaces(emails, batch)]
    /\ UNCHANGED <<sender_stats, dashboard_cache, txnVars, catVars, auxVars, webVars>>

mark_emails_deleted(email_ids) ==
    /\ ~txn.open
    /\ emails' = MarkDeleted(emails, email_ids)
    /\ upserts' = [id \in DOMAIN upserts |->
                      IF id \in email_ids /\ upserts[id] # <<>>
                      THEN <<[upserts[id][1] EXCEPT !.marked = TRUE]>>
                      ELSE upserts[id]]
    /\ last' = Done("mark_emails_deleted")
    /\ UNCHANGED <<sender_stats, dashboard_cache, txnVars, catVars, auxVars, webVars>>

refresh_sender_stats ==
    /\ ~txn.open
    /\ sender_stats' = RefreshSenderStats(sender_stats, emails)
    /\ last' = Done("refresh_sender_stats")
    /\ UNCHANGED <<emails, dashboard_cache, upserts, txnVars, catVars, auxVars, webVars>>

refresh_all_stats ==
    /\ ~txn.open
    /\ \E after \in {RefreshAllStats(emails, sender_stats)} :
           /\ sender_stats' = after.sender_stats
           /\ dashboard_cache' = after.dashboard_cache
    /\ last' = [Done("refresh_all_stats") EXCEPT
                    !.repeated = (last.op = "refresh_all_stats")]
    /\ UNCHANGED <<emails, upserts, txnVars, catVars, auxVars, webVars>>

(***************************************************************************)
(* refresh_sender_stats, statement by statement.  The DELETE opens the     *)
(* connection's transaction, the INSERT ... SELECT runs inside it, and     *)
(* leaving the with block commits.  txn.work is the table as the writing   *)
(* connection sees it; sender_stats stays the committed table until the    *)
(* commit.                                                                 *)
(***************************************************************************)
Closed == [open |-> FALSE, before |-> <<>>, work |-> <<>>, step |-> "none"]

refresh_sender_stats_delete ==
    /\ ~txn.open
    /\ txn' = [open |-> TRUE,
               before |-> sender_stats,
               work |-> DeleteFromSenderStats(sender_stats),
               step |-> "deleted"]
    /\ UNCHANGED <<dbVars, observed, catVars, auxVars, webVars>>

refresh_sender_stats_insert ==
    /\ txn.open
    /\ txn.step = "deleted"
    /\ txn' = [txn EXCEPT !.work = InsertIntoSenderStats(txn.work, emails),
                          !.step = "inserted"]
    /\ UNCHANGED <<dbVars, observed, catVars, auxVars, webVars>>

refresh_sender_stats_commit ==
    /\ txn.open
    /\ txn.step = "inserted"
    /\ sender_stats' = txn.work
    /\ txn' = Closed
    /\ last' = Done("refresh_sender_stats")
    /\ UNCHANGED <<emails, dashboard_cache, upserts, observed, catVars, auxVars, webVars>>

(***************************************************************************)
(* A reader on a connection of its own (get_sender_stats and               *)
(* get_total_senders_count each open one): a SELECT sees the committed     *)
(* table, whatever another connection's open transaction has done.         *)
(***************************************************************************)
\* A faulty variant: the reader sees the writer's uncommitted statements.
ReadUncommitted(stats, t) == IF t.open THEN t.work ELSE stats

ReadCommitted(stats, t) == stats

reader_get_sender_stats ==
    /\ observed' = <<[query |-> "get_sender_stats",
                      during |-> txn.step,
                      result |-> get_sender_stats(ReadCommitted(sender_stats, txn),
                                                  TopSendersLimit, 0)]>>
    /\ UNCHANGED <<dbVars, txn, catVars, auxVars, webVars>>

reader_get_total_senders_count ==
    /\ observed' = <<[query |-> "get_total_senders_count",
                      during |-> txn.step,
                      result |-> get_total_senders_count(
                                     ReadCommitted(sender_stats, txn))]>>
    /\ UNCHANGED <<dbVars, txn, catVars, auxVars, webVars>>

(***************************************************************************)
(* EmailCategorizer.  A text is the set of its words; a confidence is in   *)
(* hundredths.                                                             *)
(***************************************************************************)
\* CATEGORY_KEYWORDS, in the order of the dict
KeywordOrder == <<"spam", "newsletter", "ads", "social", "promotions", "important">>

CATEGORY_KEYWORDS ==
    [c \in Range(KeywordOrder) |->
        CASE c = "spam" ->
               {"urgent", "winner", "congratulations", "claim", "prize", "lottery",
                "free money", "act now", "limited time", "click here", "nigerian",
                "prince", "inheritance", "million dollars", "wire transfer",
                "bitcoin", "crypto giveaway", "double your", "guaranteed"}
          [] c = "newsletter" ->
               {"newsletter", "digest", "weekly", "monthly", "roundup", "update",
                "news", "bulletin", "edition", "issue", "subscribe", "unsubscribe",
                "view in browser", "email preferences"}
          [] c = "ads" ->
               {"sale", "discount", "off", "deal", "promo", "coupon", "savings",
                "limited offer", "buy now", "shop now", "order now",
                "free shipping", "clearance", "flash sale", "exclusive offer",
                "best price"}
          [] c = "social" ->
               {"liked your", "commented on", "tagged you", "mentioned you",
                "friend request", "connection request", "followed you",
                "new follower", "linkedin", "facebook", "twitter", "instagram",
                "notification"}
          [] c = "promotions" ->
               {"upgrade", "premium", "pro plan", "special offer", "invitation",
                "exclusive", "vip", "member", "reward", "points", "cashback",
                "refer a friend", "loyalty", "trial", "beta"}
          [] c = "important" ->
               {"invoice", "receipt", "payment", "confirmation", "booking",
                "appointment", "password reset", "security alert", "verify",
                "account", "order confirmation", "shipping", "delivery", "bank",
                "tax", "contract", "agreement", "urgent action required"}]

\* DOMAIN_CATEGORIES, in the order of the dict
DomainOrder == <<"social", "ads", "newsletter">>

DOMAIN_CATEGORIES ==
    [c \in Range(DomainOrder) |->
        CASE c = "social" ->
               {"facebook.com", "linkedin.com", "twitter.com", "instagram.com",
                "pinterest.com", "tiktok.com", "snapchat.com", "reddit.com",
                "discord.com", "slack.com", "meetup.com"}
          [] c = "ads" ->
               {"marketing", "promo", "deals", "offers", "newsletter", "mail.",
                "campaign", "mailchimp.com", "sendgrid.net", "amazonses.com"}
          [] c = "newsletter" ->
               {"substack.com", "mailchimp.com", "constantcontact.com",
                "medium.com", "ghost.io", "buttondown.email", "revue.co"}]

\* The words and the sender addresses of the modelled messages.
Vocabulary ==
    {"newsletter", "weekly", "digest", "sale", "discount", "deal", "winner"}

Addresses ==
    {"bob@example.org", "news@substack.com", "promo@shop.com", "team@mailchimp.com"}

\* re.sub(r'[^\w\s]', ' ', ...) on an address: its words
AddressWords(address) ==
    CASE address = "bob@example.org" -> {"bob", "example", "org"}
      [] address = "news@substack.com" -> {"news", "substack", "com"}
      [] address = "promo@shop.com" -> {"promo", "shop", "com"}
      [] address = "team@mailchimp.com" -> {"team", "mailchimp", "com"}

\* `kw in text`: the strings of the keyword and domain lists that are
\* substrings of a word, of an address.
WordSubstrings(w) == IF w = "newsletter" THEN {"newsletter", "news"} ELSE {w}

AddressSubstrings(address) ==
    CASE address = "bob@example.org" -> {}
      [] address = "news@substack.com" -> {"news", "substack.com"}
      [] address = "promo@shop.com" -> {"promo"}
      [] address = "team@mailchimp.com" -> {"mailchimp.com"}

\* EmailCategorizer._prepare_text
prepare_text(email) == AddressWords(email.sender_email) \cup email.subject

\* EmailCategorizer._keyword_score
keyword_score(text) ==
    [c \in Range(KeywordOrder) |->
        Cardinality({kw \in CATEGORY_KEYWORDS[c] :
                        \E w \in text : kw \in WordSubstrings(w)})]

\* max(keyword_scores, key=keyword_scores.get): the first of the greatest
MaxKeywordCat(scores) ==
    KeywordOrder[CHOOSE i \in 1..Len(KeywordOrder) :
        /\ \A j \in 1..Len(KeywordOrder) :
               scores[KeywordOrder[j]] <= scores[KeywordOrder[i]]
        /\ \A j \in 1..(i - 1) :
               scores[KeywordOrder[j]] < scores[KeywordOrder[i]]]

\* EmailCategorizer._domain_category
DomainHits(address) ==
    SelectSeq(DomainOrder,
              LAMBDA c : DOMAIN_CATEGORIES[c] \cap AddressSubstrings(address) # {})

domain_category(address) ==
    IF DomainHits(address) = <<>> THEN NULL ELSE DomainHits(address)[1]

\* bool(x) of an Optional[str]
Truthy(x) == x # NULL /\ x # ""

Min(a, b) == IF a <= b THEN a ELSE b

\* The prediction categorize uses: none when the model is not trained or
\* predict_proba raises.
Prediction(c) == IF c.is_trained THEN c.proba ELSE <<>>

Result(category, confidence) == [category |-> category, confidence |-> confidence]

\* A faulty variant: the model's weak prediction is consulted before the
\* unsubscribe affordance.
CategorizeModelFirst(email, c) ==
    LET ml == Prediction(c)
        ml_confidence == IF ml = <<>> THEN 0 ELSE ml[1].confidence
        keyword_scores == keyword_score(prepare_text(email))
        max_keyword_cat == MaxKeywordCat(keyword_scores)
        max_keyword_score == keyword_scores[max_keyword_cat]
        domain_cat == domain_category(email.sender_email)
        has_unsubscribe ==
            Truthy(email.unsubscribe_link) \/ Truthy(email.unsubscribe_email)
    IN  IF ml_confidence > 70 /\ ml # <<>>
        THEN Result(ml[1].category, ml_confidence)
        ELSE IF max_keyword_score >= 3
        THEN Result(max_keyword_cat, Min(50 + max_keyword_score * 10, 85))
        ELSE IF domain_cat # NULL
        THEN Result(domain_cat, 60)
        ELSE IF ml_confidence > 40 /\ ml # <<>>
        THEN Result(ml[1].category, ml_confidence)
        ELSE IF has_unsubscribe
        THEN IF keyword_scores["newsletter"] > keyword_scores["ads"]
             THEN Result("newsletter", 50)
             ELSE IF keyword_scores["ads"] > 0
             THEN Result("ads", 50)
             ELSE Result("promotions", 40)
        ELSE IF max_keyword_score > 0
        THEN Result(max_keyword_cat, 30)
        ELSE Result("uncertain", 20)

\* EmailCategorizer.categorize
categorize(email, c) ==
    LET ml == Prediction(c)
        ml_confidence == IF ml = <<>> THEN 0 ELSE ml[1].confidence
        keyword_scores == keyword_score(prepare_text(email))
        max_keyword_cat == MaxKeywordCat(keyword_scores)
        max_keyword_score == keyword_scores[max_keyword_cat]
        domain_cat == domain_category(email.sender_email)
        has_unsubscribe ==
            Truthy(email.unsubscribe_link) \/ Truthy(email.unsubscribe_email)
    IN  IF ml_confidence > 70 /\ ml # <<>>
        THEN Result(ml[1].category, ml_confidence)
        ELSE IF max_keyword_score >= 3
        THEN Result(max_keyword_cat, Min(50 + max_keyword_score * 10, 85))
        ELSE IF domain_cat # NULL
        THEN Result(domain_cat, 60)
        ELSE IF has_unsubscribe
        THEN IF keyword_scores["newsletter"] > keyword_scores["ads"]
             THEN Result("newsletter", 50)
             ELSE IF keyword_scores["ads"] > 0
             THEN Result("ads", 50)
             ELSE Result("promotions", 40)
        ELSE IF ml_confidence > 40 /\ ml # <<>>
        THEN Result(ml[1].category, ml_confidence)
        ELSE IF max_keyword_score > 0
        THEN Result(max_keyword_cat, 30)
        ELSE Result("uncertain", 20)

\* EmailCategorizer.categorize_batch, on the one message at hand
categorize_batch ==
    /\ verdict = <<>>
    /\ verdict' = <<categorize(msg, clf)>>
    /\ UNCHANGED <<dbVars, txnVars, msg, clf, webVars, auxVars>>

(***************************************************************************)
(* web_app.trigger_background_refresh: the debounced refresh.  A           *)
(* threading.Timer waits for its interval unless it is cancelled, then     *)
(* runs run_refresh, which calls db.refresh_all_stats().  cancel() stops a *)
(* timer that is still waiting and does nothing to one that has fired.     *)
(* Time is counted in seconds.                                             *)
(***************************************************************************)
Delay == 2
MaxCalls == 3

Waiting(ts) == {i \in 1..Len(ts) : ts[i].status = "waiting"}

\* A faulty variant: the pending timer is left to run.
KeepTimer(ts, t) == ts

\* refresh_timer.cancel(), when refresh_timer is not None
CancelTimer(ts, t) ==
    IF t # 0 /\ ts[t].status = "waiting"
    THEN [ts EXCEPT ![t].status = "cancelled"]
    ELSE ts

\* threading.Timer(2.0, run_refresh).start()
StartTimer(ts) == Append(ts, [status |-> "waiting", left |-> Delay])

trigger_background_refresh ==
    /\ Len(timers) < MaxCalls
    /\ timers' = StartTimer(CancelTimer(timers, refresh_timer))
    /\ refresh_timer' = Len(timers) + 1
    /\ burst' = [burst EXCEPT
                    !.calls = @ + 1,
                    !.bursts = IF Waiting(timers) = {} THEN @ + 1 ELSE @,
                    !.since = 0]

\* POST /api/delete: mark the ids, then schedule the refresh.
api_delete_emails(email_ids) ==
    /\ email_ids # {}
    /\ ~txn.open
    /\ emails' = MarkDeleted(emails, email_ids)
    /\ upserts' = [id \in DOMAIN upserts |->
                      IF id \in email_ids /\ upserts[id] # <<>>
                      THEN <<[upserts[id][1] EXCEPT !.marked = TRUE]>>
                      ELSE upserts[id]]
    /\ last' = Done("mark_emails_deleted")
    /\ trigger_background_refresh
    /\ UNCHANGED <<sender_stats, dashboard_cache, txnVars, catVars, auxVars,
                   pageVars, trainVars, syncVars>>

\* A second passes: no timer stays waiting beyond its interval.
Tick ==
    /\ Waiting(timers) # {}
    /\ \A i \in Waiting(timers) : timers[i].left > 0
    /\ timers' = [i \in 1..Len(timers) |->
                     IF i \in Waiting(timers)
                     THEN [timers[i] EXCEPT !.left = @ - 1]
                     ELSE timers[i]]
    /\ burst' = [burst EXCEPT !.since = IF @ < Delay THEN @ + 1 ELSE @]
    /\ UNCHANGED <<dbVars, txnVars, catVars, auxVars, refresh_timer,
                   pageVars, trainVars, syncVars>>

\* Timer.run: the interval is over and the timer was not cancelled.
timer_fires(i) ==
    /\ i \in Waiting(timers)
    /\ timers[i].left = 0
    /\ timers' = [timers EXCEPT ![i].status = "running"]
    /\ burst' = [burst EXCEPT !.runs = @ + 1]
    /\ UNCHANGED <<dbVars, txnVars, catVars, auxVars, refresh_timer,
                   pageVars, trainVars, syncVars>>

\* run_refresh: db.refresh_all_stats() on the timer's thread
run_refresh(i) ==
    /\ i \in 1..Len(timers)
    /\ timers[i].status = "running"
    /\ ~txn.open
    /\ \E after \in {RefreshAllStats(emails, sender_stats)} :
           /\ sender_stats' = after.sender_stats
           /\ dashboard_cache' = after.dashboard_cache
    /\ last' = [Done("refresh_all_stats") EXCEPT
                    !.repeated = (last.op = "refresh_all_stats")]
    /\ timers' = [timers EXCEPT ![i].status = "finished"]
    /\ UNCHANGED <<emails, upserts, txnVars, catVars, auxVars, refresh_timer, burst,
                   pageVars, trainVars, syncVars>>

(***************************************************************************)
(* refresh_all_stats raising.  refresh_sender_stats() runs in a            *)
(* transaction of its own: an exception inside it rolls the table back,    *)
(* and its return has committed the rebuilt table.  refresh_global_stats() *)
(* then reads, computes and calls set_setting; an exception there leaves   *)
(* the cache entry unwritten.                                              *)
(***************************************************************************)
FailurePoints == {"refresh_sender_stats", "compute", "set_setting"}

refresh_all_stats_raises(at) ==
    /\ ~txn.open
    /\ sender_stats' = IF at = "refresh_sender_stats"
                       THEN sender_stats
                       ELSE RefreshSenderStats(sender_stats, emails)
    /\ last' = Done("refresh_all_stats raised")
    /\ UNCHANGED <<emails, dashboard_cache, upserts, txnVars, catVars, auxVars, webVars>>

(***************************************************************************)
(* Database.refresh_global_stats on its own: the second half of            *)
(* refresh_all_stats, which another thread's write to the store can        *)
(* precede.                                                                *)
(***************************************************************************)
refresh_global_stats ==
    /\ ~txn.open
    /\ dashboard_cache' = <<DashboardData(emails, sender_stats)>>
    /\ last' = Done("refresh_global_stats")
    /\ UNCHANGED <<emails, sender_stats, upserts, txnVars, catVars, auxVars, webVars>>

(***************************************************************************)
(* The dashboard reads of web_app.  served is the stats the response       *)
(* carries: <<>> for the empty dict.                                       *)
(*                                                                         *)
(* index: cached_data is assigned further down in the function, so it is a *)
(* local name, and `if cached_data:` reads it before any assignment.  The  *)
(* UnboundLocalError is caught by the except clause, which sets stats to   *)
(* {}: neither branch of the try block runs.                               *)
(***************************************************************************)
index ==
    /\ served' = <<[page |-> "index", stats |-> <<>>]>>
    /\ UNCHANGED <<dbVars, txnVars, catVars, auxVars, timerVars, trainVars, syncVars>>

\* api_stats: the cached entry as it is, or on a miss a refresh_all_stats
\* and the entry it wrote.
api_stats ==
    /\ ~txn.open
    /\ IF dashboard_cache # <<>>
       THEN /\ served' = <<[page |-> "api_stats", stats |-> dashboard_cache]>>
            /\ UNCHANGED dbVars
       ELSE /\ \E after \in {RefreshAllStats(emails, sender_stats)} :
                   /\ sender_stats' = after.sender_stats
                   /\ dashboard_cache' = after.dashboard_cache
                   /\ served' = <<[page |-> "api_stats", stats |-> after.dashboard_cache]>>
            /\ last' = [Done("refresh_all_stats") EXCEPT
                            !.repeated = (last.op = "refresh_all_stats")]
            /\ UNCHANGED <<emails, upserts>>
    /\ UNCHANGED <<txnVars, catVars, auxVars, timerVars, trainVars, syncVars>>

(***************************************************************************)
(* The bulk deletion routes of web_app.  A request that is refused         *)
(* answers with an error and touches nothing.                              *)
(***************************************************************************)
MarkAndSchedule(email_ids) ==
    /\ emails' = MarkDeleted(emails, email_ids)
    /\ upserts' = [id \in DOMAIN upserts |->
                      IF id \in email_ids /\ upserts[id] # <<>>
                      THEN <<[upserts[id][1] EXCEPT !.marked = TRUE]>>
                      ELSE upserts[id]]
    /\ trigger_background_refresh

\* POST /api/delete/by-sender
api_delete_by_sender(sender_email) ==
    /\ ~txn.open
    /\ MarkAndSchedule(Range(get_email_ids_by_sender(emails, sender_email)))
    /\ last' = Done("api_delete_by_sender")
    /\ UNCHANGED <<sender_stats, dashboard_cache, txnVars, catVars, auxVars,
                   pageVars, trainVars, syncVars>>

\* POST /api/delete/by-category
api_delete_by_category(category) ==
    /\ ~txn.open
    /\ IF category \in {"important", "uncertain"}
       THEN /\ last' = Done("api_delete_by_category refused")
            /\ UNCHANGED <<emails, upserts, timerVars>>
       ELSE /\ MarkAndSchedule(Range(get_email_ids_by_category(emails, category)))
            /\ last' = Done("api_delete_by_category")
    /\ UNCHANGED <<sender_stats, dashboard_cache, txnVars, catVars, auxVars,
                   pageVars, trainVars, syncVars>>

(***************************************************************************)
(* EmailCategorizer.train and train_from_database.  The training data is   *)
(* the number of examples under each label; "bogus" stands for a label     *)
(* that is no EmailCategory.  pipeline.fit works on the pipeline in        *)
(* place.                                                                  *)
(***************************************************************************)
MinExamples == 10
MaxExamples == 6

TrainingData ==
    [spam : 0..MaxExamples, important : 0..MaxExamples, bogus : 0..MaxExamples]

TrainOutcomes == {"returns", "fit raises", "dump raises"}

Unfitted == [fit |-> "none", spam |-> 0, important |-> 0]

FittedOn(data) == [fit |-> "whole", spam |-> data.spam, important |-> data.important]

\* What is left of a pipeline whose fit raised part-way: the pipeline as
\* it was, or one with some steps refitted.
FitBroken(pipeline) == {pipeline, [pipeline EXCEPT !.fit = "part"]}

\* What is left of the model file when open(..., 'wb') or pickle.dump
\* raised: the file as it was, or a truncated one.
DumpBroken(file) == {file, [file EXCEPT !.fit = "part"]}

\* len(training_data) < 10, or len(filtered_data) < 10
TooFew(data) ==
    \/ data.spam + data.important + data.bogus < MinExamples
    \/ data.spam + data.important < MinExamples

\* The states train can leave the categorizer in, with what it returns.
Train(t, data, outcome) ==
    IF TooFew(data)
    THEN {[state |-> t, result |-> FALSE]}
    ELSE IF outcome = "fit raises"
    THEN {[state |-> [t EXCEPT !.pipeline = p], result |-> FALSE] :
             p \in FitBroken(t.pipeline)}
    ELSE IF outcome = "dump raises"
    THEN {[state |-> [is_trained |-> TRUE, pipeline |-> FittedOn(data), file |-> f],
           result |-> FALSE] : f \in DumpBroken(t.file)}
    ELSE {[state |-> [is_trained |-> TRUE,
                      pipeline |-> FittedOn(data),
                      file |-> FittedOn(data)],
           result |-> TRUE]}

Returned(op, result) ==
    Done(IF result THEN op \o " returned True" ELSE op \o " returned False")

train(data, outcome) ==
    /\ \E after \in Train(trainer, data, outcome) :
           /\ trainer' = after.state
           /\ last' = Returned("train", after.result)
    /\ UNCHANGED <<emails, sender_stats, dashboard_cache, upserts, txnVars, catVars, auxVars,
                   timerVars, pageVars, syncVars>>

\* train_from_database: 'keep' is read as important, 'delete' as spam, any
\* other label that is no category is dropped; no rows at all is a failure.
Samples(rows) == [spam |-> rows.delete, important |-> rows.keep, bogus |-> 0]

train_from_database(rows, outcome) ==
    /\ IF rows.delete + rows.keep + rows.bogus = 0
       THEN /\ trainer' = trainer
            /\ last' = Returned("train_from_database", FALSE)
       ELSE \E after \in Train(trainer, Samples(rows), outcome) :
                /\ trainer' = after.state
                /\ last' = Returned("train_from_database", after.result)
    /\ UNCHANGED <<emails, sender_stats, dashboard_cache, upserts, txnVars, catVars, auxVars,
                   timerVars, pageVars, syncVars>>

(***************************************************************************)
(* Database.get_recent_emails_for_senders: per sender the rows numbered    *)
(*   ROW_NUMBER() OVER (PARTITION BY sender_email ORDER BY date DESC)      *)
(* over the active rows, those numbered up to limit_per_sender kept; a     *)
(* dict from each sender asked for to its list of Emails.                  *)
(***************************************************************************)
PreviewLimit == 5

\* A faulty variant: the WHERE clause without the active-set condition.
get_recent_emails_any_action(table, sender_emails, limit_per_sender) ==
    [s \in Range(sender_emails) |->
        LET rows == Limit(OrderByDateDesc(SelectSeq(table,
                              LAMBDA r : r.sender_email = s)),
                          limit_per_sender, 0)
        IN  [i \in 1..Len(rows) |-> row_to_email(rows[i])]]

get_recent_emails_for_senders(table, sender_emails, limit_per_sender) ==
    [s \in Range(sender_emails) |->
        LET rows == Limit(OrderByDateDesc(SelectSeq(table,
                              LAMBDA r : r.sender_email = s /\ IsActive(r))),
                          limit_per_sender, 0)
        IN  [i \in 1..Len(rows) |-> row_to_email(rows[i])]]

(***************************************************************************)
(* Database.get_rich_sender_groups(read_filter, limit): the groups of      *)
(* get_top_sender_groups whose sender has a message matching the read      *)
(* filter, the first `limit` of them; each reports the sender's total and  *)
(* unread counts, the count per category within the sender's active        *)
(* messages and up to 5 preview messages, newest first.                    *)
(***************************************************************************)
MatchesFilter(read_filter, g) ==
    /\ read_filter = "unread" => g.unread > 0
    /\ read_filter = "read" => g.total - g.unread > 0

CategoryCounts(table, sender_email) ==
    LET rows == SelectSeq(table, LAMBDA r : /\ r.sender_email = sender_email
                                            /\ IsActive(r)
                                            /\ r.category # NULL)
    IN  [c \in {rows[i].category : i \in 1..Len(rows)} |->
            Len(SelectSeq(rows, LAMBDA r : r.category = c))]

get_rich_sender_groups(table, read_filter, limit) ==
    LET top == Limit(SelectSeq(get_top_sender_groups(table, Len(table)),
                               LAMBDA g : MatchesFilter(read_filter, g)),
                     limit, 0)
        previews == get_recent_emails_for_senders(table,
                        [i \in 1..Len(top) |-> top[i].sender_email], PreviewLimit)
    IN  [i \in 1..Len(top) |->
            [sender_email |-> top[i].sender_email,
             sender |-> top[i].sender,
             total |-> top[i].total,
             unread |-> top[i].unread,
             has_unsubscribe |-> top[i].has_unsubscribe,
             last_received |-> top[i].last_received,
             categories |-> CategoryCounts(table, top[i].sender_email),
             preview_emails |-> previews[top[i].sender_email]]]

\* A direct call, as the tests make it.
grouped_by_sender(read_filter, limit) ==
    /\ served' = <<[page |-> "grouped",
                    stats |-> [read_filter |-> read_filter,
                               limit |-> limit,
                               groups |-> get_rich_sender_groups(emails, read_filter, limit)]]>>
    /\ UNCHANGED <<dbVars, txnVars, catVars, auxVars, timerVars, trainVars, syncVars>>

(***************************************************************************)
(* web_app.api_get_top_senders and web_app.api_get_emails_grouped          *)
(***************************************************************************)
TopSendersMax == 200
GroupedLimit == 100

api_get_top_senders(limit) ==
    /\ served' = <<[page |-> "top",
                    stats |-> [read_filter |-> "all",
                               limit |-> Min(limit, TopSendersMax),
                               groups |-> get_top_sender_groups(emails,
                                              Min(limit, TopSendersMax))]]>>
    /\ UNCHANGED <<dbVars, txnVars, catVars, auxVars, timerVars, trainVars, syncVars>>

api_get_emails_grouped(read_filter) ==
    /\ \E groups \in {get_rich_sender_groups(emails, read_filter, GroupedLimit)} :
           served' = <<[page |-> "grouped",
                        stats |-> [read_filter |-> read_filter,
                                   limit |-> GroupedLimit,
                                   groups |-> groups,
                                   total_groups |-> Len(groups),
                                   total_emails |-> SumOf(groups, "total")]]>>
    /\ UNCHANGED <<dbVars, txnVars, catVars, auxVars, timerVars, trainVars, syncVars>>

(***************************************************************************)
(* web_app.api_fetch_emails and the background_sync thread it starts.      *)
(* A thread is at "start" (fetching from Gmail), "fetched" (both phases    *)
(* processed, before the final status update), "stopping" or "completing"  *)
(* (the stop event tested, the status not yet assigned), "refreshing"      *)
(* (status set to completed, inside db.refresh_all_stats()) or "done".     *)
(* Gmail delivers up to max_emails messages over the two phases, fewer     *)
(* when the stop event ends a fetch loop; process_batch saves them.        *)
(***************************************************************************)
MaxFetches == 2

DefaultMaxEmails == 500

api_fetch_emails(max_emails, fresh) ==
    /\ Len(sync_threads) < MaxFetches
    /\ IF sync_state.status = "fetching"
       THEN /\ last' = Done("api_fetch_emails refused")
            /\ UNCHANGED syncVars
       ELSE /\ sync_state' = [status |-> "fetching", current |-> 0,
                              total |-> IF max_emails = 0 THEN DefaultMaxEmails
                                        ELSE max_emails,
                              error |-> NULL]
            /\ sync_stop_event' = FALSE
            /\ sync_threads' = Append(sync_threads,
                   [pc |-> "start", fresh |-> fresh, current_count |-> 0,
                    max_emails |-> IF max_emails = 0 THEN DefaultMaxEmails
                                   ELSE max_emails])
            /\ last' = Done("api_fetch_emails")
    /\ UNCHANGED <<emails, sender_stats, dashboard_cache, upserts, txnVars, catVars, auxVars,
                   timerVars, pageVars, trainVars>>

\* db.clear_all()
ClearAll(db) ==
    [db EXCEPT !.emails = <<>>, !.sender_stats = <<>>, !.dashboard_cache = <<>>]

\* The fetch phases: clear_all on a fresh fetch, then process_batch of what
\* Gmail delivered.
background_sync_fetch(i, batch) ==
    /\ i \in 1..Len(sync_threads)
    /\ sync_threads[i].pc = "start"
    /\ ~txn.open
    /\ Len(batch) <= sync_threads[i].max_emails
    /\ \E db \in {[emails |-> emails, sender_stats |-> sender_stats,
                   dashboard_cache |-> dashboard_cache]} :
       \E before \in {IF sync_threads[i].fresh THEN ClearAll(db) ELSE db} :
           /\ emails' = InsertAll(before.emails, batch)
           /\ sender_stats' = before.sender_stats
           /\ dashboard_cache' = before.dashboard_cache
    /\ upserts' = NoteUpserts(upserts, batch)
    /\ sync_state' = IF batch = <<>> THEN sync_state
                     ELSE [sync_state EXCEPT !.current = Len(batch),
                                             !.total = sync_threads[i].max_emails]
    /\ sync_threads' = [sync_threads EXCEPT ![i].pc = "fetched",
                                            ![i].current_count = Len(batch)]
    /\ last' = Done("background_sync fetched")
    /\ UNCHANGED <<sync_stop_event, txnVars, catVars, auxVars, timerVars, pageVars, trainVars>>

\* An exception in the fetch phases (the Gmail API, the database): the
\* except clause.  A fresh fetch may have cleared the store before it.
background_sync_raises(i, cleared) ==
    /\ i \in 1..Len(sync_threads)
    /\ sync_threads[i].pc = "start"
    /\ ~txn.open
    /\ cleared => sync_threads[i].fresh
    /\ \E db \in {[emails |-> emails, sender_stats |-> sender_stats,
                   dashboard_cache |-> dashboard_cache]} :
       \E after \in {IF cleared THEN ClearAll(db) ELSE db} :
           /\ emails' = after.emails
           /\ sender_stats' = after.sender_stats
           /\ dashboard_cache' = after.dashboard_cache
    /\ sync_state' = [sync_state EXCEPT !.status = "error", !.error = "raised"]
    /\ sync_threads' = [sync_threads EXCEPT ![i].pc = "done"]
    /\ last' = Done("background_sync raised")
    /\ UNCHANGED <<upserts, sync_stop_event, txnVars, catVars, auxVars, timerVars, pageVars,
                   trainVars>>

\* Final Status Update, the test: `if sync_stop_event.is_set():` picks the
\* branch.  The assignment of the status is a later step of the thread, and
\* a request handled by another thread can run between the two.
background_sync_final_check(i) ==
    /\ i \in 1..Len(sync_threads)
    /\ sync_threads[i].pc = "fetched"
    /\ sync_threads' = [sync_threads EXCEPT
                            ![i].pc = IF sync_stop_event THEN "stopping"
                                      ELSE "completing"]
    /\ last' = Done("background_sync final check")
    /\ UNCHANGED <<emails, sender_stats, dashboard_cache, upserts, sync_state,
                   sync_stop_event, txnVars, catVars, auxVars, timerVars, pageVars, trainVars>>

\* Final Status Update, the assignment: stopped, and the thread ends; or
\* completed, and the thread goes on to db.refresh_all_stats().
background_sync_final_status(i) ==
    /\ i \in 1..Len(sync_threads)
    /\ sync_threads[i].pc \in {"stopping", "completing"}
    /\ IF sync_threads[i].pc = "stopping"
       THEN /\ sync_state' = [sync_state EXCEPT
                                  !.status = "stopped",
                                  !.current = sync_threads[i].current_count]
            /\ sync_threads' = [sync_threads EXCEPT ![i].pc = "done"]
       ELSE /\ sync_state' = [sync_state EXCEPT !.status = "completed"]
            /\ sync_threads' = [sync_threads EXCEPT ![i].pc = "refreshing"]
    /\ last' = Done("background_sync final status")
    /\ UNCHANGED <<emails, sender_stats, dashboard_cache, upserts, sync_stop_event,
                   txnVars, catVars, auxVars, timerVars, pageVars, trainVars>>

\* db.refresh_all_stats() returns, and the thread ends.
background_sync_refresh(i) ==
    /\ i \in 1..Len(sync_threads)
    /\ sync_threads[i].pc = "refreshing"
    /\ ~txn.open
    /\ \E after \in {RefreshAllStats(emails, sender_stats)} :
           /\ sender_stats' = after.sender_stats
           /\ dashboard_cache' = after.dashboard_cache
    /\ sync_state' = [sync_state EXCEPT !.current = sync_threads[i].current_count]
    /\ sync_threads' = [sync_threads EXCEPT ![i].pc = "done"]
    /\ last' = [Done("refresh_all_stats") EXCEPT
                    !.repeated = (last.op = "refresh_all_stats")]
    /\ UNCHANGED <<emails, upserts, sync_stop_event, txnVars, catVars, auxVars, timerVars,
                   pageVars, trainVars>>

\* db.refresh_all_stats() raises: the except clause of background_sync.
background_sync_refresh_raises(i, at) ==
    /\ i \in 1..Len(sync_threads)
    /\ sync_threads[i].pc = "refreshing"
    /\ ~txn.open
    /\ sender_stats' = IF at = "refresh_sender_stats"
                       THEN sender_stats
                       ELSE RefreshSenderStats(sender_stats, emails)
    /\ sync_state' = [sync_state EXCEPT !.status = "error", !.error = "raised"]
    /\ sync_threads' = [sync_threads EXCEPT ![i].pc = "done"]
    /\ last' = Done("refresh_all_stats raised")
    /\ UNCHANGED <<emails, dashboard_cache, upserts, sync_stop_event, txnVars, catVars, auxVars,
                   timerVars, pageVars, trainVars>>

api_stop_sync ==
    /\ sync_stop_event' = TRUE
    /\ last' = Done("api_stop_sync")
    /\ UNCHANGED <<emails, sender_stats, dashboard_cache, upserts, sync_state,
                   sync_threads, txnVars, catVars, auxVars, timerVars, pageVars, trainVars>>

api_fetch_status ==
    /\ served' = <<[page |-> "api_fetch_status", stats |-> <<sync_state>>]>>
    /\ UNCHANGED <<dbVars, txnVars, catVars, auxVars, timerVars, trainVars, syncVars>>

(***************************************************************************)
(* The state of the web application when it starts.                        *)
(***************************************************************************)
InitTimer ==
    /\ timers = <<>>
    /\ refresh_timer = 0
    /\ burst = [calls |-> 0, bursts |-> 0, runs |-> 0, since |-> Delay]

InitPage == served = <<>>

InitTrain == trainer = [is_trained |-> FALSE, pipeline |-> Unfitted, file |-> Unfitted]

InitSync ==
    /\ sync_state = [status |-> "idle", current |-> 0, total |-> 0, error |-> NULL]
    /\ sync_stop_event = FALSE
    /\ sync_threads = <<>>

InitWeb == InitTimer /\ InitPage /\ InitTrain /\ InitSync

(***************************************************************************)
(* GmailClient._exponential_backoff(func, max_retries = 5).  Each call of  *)
(* func() returns (status 200) or raises: an HttpError with its status, or *)
(* another exception (NotHttp), which no except clause of the loop takes.  *)
(* backoff holds the call in progress: the attempts counted, what func()   *)
(* did on each call, the whole seconds slept (the jitter adds less than a  *)
(* second to each wait), and how the call ended.                           *)
(***************************************************************************)
max_retries == 5

NotHttp == 0

Statuses == {200, 400, 404, 429, 500, 502, 503, NotHttp}

\* A faulty variant: every HttpError is waited on and retried.
RetriedAny == Statuses \ {200, NotHttp}

Retried == {429, 500, 503}

Pending == [kind |-> "pending", value |-> 0]

exponential_backoff_call ==
    /\ IF backoff = <<>> THEN TRUE ELSE backoff[1].result # Pending
    /\ backoff' = <<[attempt |-> 0, outcomes |-> <<>>, slept |-> 0, result |-> Pending]>>
    /\ UNCHANGED <<dbVars, txnVars, catVars, webVars, mailbox, besidesGmail>>

\* One turn of the for loop: func() is called and returns, or raises.
exponential_backoff_attempt(status) ==
    /\ backoff # <<>>
    /\ backoff[1].result = Pending
    /\ backoff[1].attempt < max_retries
    /\ backoff' =
         <<[backoff[1] EXCEPT
              !.outcomes = Append(@, status),
              !.attempt = IF status \in Retried THEN @ + 1 ELSE @,
              !.slept = IF status \in Retried THEN @ + 2 ^ backoff[1].attempt ELSE @,
              !.result = IF status = 200 THEN [kind |-> "returned", value |-> status]
                         ELSE IF status \in Retried THEN Pending
                         ELSE [kind |-> "raised", value |-> status]]>>
    /\ UNCHANGED <<dbVars, txnVars, catVars, webVars, mailbox, besidesGmail>>

\* The loop is over: raise Exception("Max retries (5) exceeded").
exponential_backoff_exhausted ==
    /\ backoff # <<>>
    /\ backoff[1].result = Pending
    /\ backoff[1].attempt = max_retries
    /\ backoff' = <<[backoff[1] EXCEPT
                       !.result = [kind |-> "raised", value |-> max_retries]]>>
    /\ UNCHANGED <<dbVars, txnVars, catVars, webVars, mailbox, besidesGmail>>

(***************************************************************************)
(* The state of the Gmail client when it starts: no call in progress.      *)
(***************************************************************************)
InitGmail == backoff = <<>> /\ mailbox = {}

(***************************************************************************)
(* Database.refresh_all_stats statement by statement.  Every Database      *)
(* method opens its own connection (_get_conn), so each read below sees    *)
(* the emails and sender_stats tables as committed at the moment it runs,  *)
(* and other connections write between two of them.                        *)
(***************************************************************************)
Idle == [pc |-> "idle", stats |-> <<>>, top |-> <<>>, leaderboard |-> <<>>,
         total_senders |-> 0]

\* refresh_all_stats: self.refresh_sender_stats()
stepwise_refresh_sender_stats ==
    /\ ~txn.open
    /\ refresher.pc = "idle"
    /\ sender_stats' = RefreshSenderStats(sender_stats, emails)
    /\ refresher' = [Idle EXCEPT !.pc = "refresh_global_stats"]
    /\ last' = Done("refresh_sender_stats")
    /\ UNCHANGED <<emails, dashboard_cache, upserts, txnVars, catVars, webVars, besidesThreads>>

\* refresh_global_stats: stats = self.get_category_stats()
stepwise_get_category_stats ==
    /\ ~txn.open
    /\ refresher.pc = "refresh_global_stats"
    /\ refresher' = [refresher EXCEPT !.pc = "get_sender_stats",
                                      !.stats = get_category_stats(emails)]
    /\ UNCHANGED <<dbVars, txnVars, catVars, webVars, besidesThreads>>

\* refresh_global_stats: sender_stats = self.get_sender_stats(limit=10)
stepwise_get_sender_stats ==
    /\ ~txn.open
    /\ refresher.pc = "get_sender_stats"
    /\ refresher' = [refresher EXCEPT !.pc = "get_leaderboard_stats",
                                      !.top = get_sender_stats(sender_stats, TopSendersLimit, 0)]
    /\ UNCHANGED <<dbVars, txnVars, catVars, webVars, besidesThreads>>

\* refresh_global_stats: leaderboard = self.get_leaderboard_stats()
stepwise_get_leaderboard_stats ==
    /\ ~txn.open
    /\ refresher.pc = "get_leaderboard_stats"
    /\ refresher' = [refresher EXCEPT !.pc = "get_total_senders_count",
                                      !.leaderboard = get_leaderboard_stats(emails)]
    /\ UNCHANGED <<dbVars, txnVars, catVars, webVars, besidesThreads>>

\* refresh_global_stats: total_senders = self.get_total_senders_count()
stepwise_get_total_senders_count ==
    /\ ~txn.open
    /\ refresher.pc = "get_total_senders_count"
    /\ refresher' = [refresher EXCEPT !.pc = "set_setting",
                                      !.total_senders = get_total_senders_count(sender_stats)]
    /\ UNCHANGED <<dbVars, txnVars, catVars, webVars, besidesThreads>>

\* refresh_global_stats: self.set_setting('dashboard_cache', json.dumps(dashboard_data))
stepwise_set_setting ==
    /\ ~txn.open
    /\ refresher.pc = "set_setting"
    /\ dashboard_cache' = <<DashboardFrom(refresher.stats, refresher.top,
                                          refresher.leaderboard, refresher.total_senders)>>
    /\ refresher' = Idle
    /\ last' = Done("refresh_all_stats")
    /\ UNCHANGED <<emails, sender_stats, upserts, txnVars, catVars, webVars, besidesThreads>>

InitThreads == refresher = Idle

(***************************************************************************)
(* POST /api/feedback.  The decision is stored in user_feedback and in     *)
(* ml_training_data (save_user_feedback), then written into the message    *)
(* as its user_action and the message saved with save_email.               *)
(***************************************************************************)
MaxFeedback == 1

Decisions == {"keep", "delete"}

\* Database.save_user_feedback
save_user_feedback(tables, email_id, sender_email, original_category, user_decision) ==
    [user_feedback |-> Append(tables.user_feedback,
                              [email_id |-> email_id,
                               sender_email |-> sender_email,
                               original_category |-> original_category,
                               user_decision |-> user_decision]),
     ml_training_data |-> Append(tables.ml_training_data,
                                 [sender_email |-> sender_email,
                                  label |-> user_decision])]

api_submit_feedback(email_id, decision, correct_category) ==
    /\ ~txn.open
    /\ Len(feedback.user_feedback) < MaxFeedback
    /\ \E found \in {get_email(emails, email_id)} :
           IF found = <<>>
           THEN /\ last' = Done("api_submit_feedback not found")
                /\ UNCHANGED <<emails, upserts, feedback>>
           ELSE \E email \in {[found[1] EXCEPT !.user_action = decision]} :
                    /\ feedback' = save_user_feedback(feedback, email_id,
                                       email.sender_email,
                                       IF email.category # NULL
                                       THEN email.category ELSE "unknown",
                                       IF correct_category # NULL
                                       THEN correct_category ELSE decision)
                    /\ emails' = InsertOrReplace(emails, email)
                    /\ upserts' = NoteUpserts(upserts, <<email>>)
                    /\ last' = Done("api_submit_feedback")
    /\ UNCHANGED <<sender_stats, dashboard_cache, txnVars, catVars, webVars, besidesFeedback>>

\* DELETE /api/emails/<email_id>: success is what delete_messages_batch
\* reports for the one id.
api_delete_single_email(email_id, success) ==
    /\ ~txn.open
    /\ IF success > 0
       THEN /\ MarkAndSchedule({email_id})
            /\ last' = Done("api_delete_single_email")
       ELSE /\ last' = Done("api_delete_single_email failed")
            /\ UNCHANGED <<emails, upserts, timerVars>>
    /\ UNCHANGED <<sender_stats, dashboard_cache, txnVars, catVars, auxVars,
                   pageVars, trainVars, syncVars>>

InitFeedback == feedback = [user_feedback |-> <<>>, ml_training_data |-> <<>>]

(***************************************************************************)
(* background_sync without fresh, run to its end with no stop request.     *)
(* A provider message is its timestamp in whole seconds (the message with  *)
(* timestamp ts has the id ts); the provider lists the matches of a query  *)
(* newest first, and after:T and before:T are taken to include the second  *)
(* T, as the comments of the code expect.  sync_window holds the two       *)
(* settings, 0 standing for '' (float(...) is not taken of it, and         *)
(* `if min_ts:` is false for it).                                          *)
(***************************************************************************)
MaxStamp == 3

Stamps == 1..MaxStamp

RECURSIVE NewestFirst(_)
NewestFirst(stamps) ==
    IF stamps = {} THEN <<>>
    ELSE LET newest == CHOOSE ts \in stamps : \A other \in stamps : other <= ts
         IN  <<newest>> \o NewestFirst(stamps \ {newest})

\* GmailClient.fetch_all_emails(query, max_emails): the first max_emails
\* of the messages the query matches.
fetch_all_emails(matching, max_emails) == Limit(NewestFirst(matching), max_emails, 0)

\* The Email parse_message builds of a message, as categorize_batch leaves it.
Parsed(ts) ==
    [id |-> ts, sender_email |-> "a@x", sender |-> "Ann", date |-> <<ts, 0>>,
     is_read |-> FALSE, category |-> "newsletter", unsubscribe_link |-> NULL,
     unsubscribe_email |-> NULL, user_action |-> NULL]

\* process_batch: min_ts and max_ts after the batch.
RECURSIVE Widen(_, _)
Widen(window, batch) ==
    IF batch = <<>> THEN window
    ELSE LET ts == timestamp(Parsed(Head(batch)).date)
         IN  Widen([min |-> IF window.min = 0 \/ ts < window.min THEN ts ELSE window.min,
                    max |-> IF window.max = 0 \/ ts > window.max THEN ts ELSE window.max],
                   Tail(batch))

\* Phase 1: the messages newer than sync_max_date, within the whole quota.
PhaseNew(box, window, max_emails) ==
    IF window.max # 0
    THEN SelectSeq(fetch_all_emails({ts \in box : ts >= window.max + 1}, max_emails),
                   LAMBDA ts : ts > window.max)
    ELSE <<>>

\* Phase 2: the history older than sync_min_date, within the quota left.
PhaseHistory(box, window, remaining_quota) ==
    IF remaining_quota > 0
    THEN fetch_all_emails(IF window.min # 0
                          THEN {ts \in box : ts <= window.min - 1}
                          ELSE box,
                          remaining_quota)
    ELSE <<>>

background_sync(max_emails) ==
    /\ ~txn.open
    /\ sync_state.status # "fetching"
    /\ \E new_emails \in {PhaseNew(mailbox, sync_window, max_emails)} :
       \E history_emails \in
              {PhaseHistory(mailbox, Widen(sync_window, new_emails),
                            max_emails - Len(new_emails))} :
       \E saved \in {InsertAll(emails, [i \in 1..Len(new_emails \o history_emails) |->
                                           Parsed((new_emails \o history_emails)[i])])} :
       \E after \in {RefreshAllStats(saved, sender_stats)} :
           /\ sync_window' = Widen(Widen(sync_window, new_emails), history_emails)
           /\ emails' = saved
           /\ upserts' = NoteUpserts(upserts,
                             [i \in 1..Len(new_emails \o history_emails) |->
                                 Parsed((new_emails \o history_emails)[i])])
           /\ sender_stats' = after.sender_stats
           /\ dashboard_cache' = after.dashboard_cache
           /\ sync_state' = [status |-> "completed",
                             current |-> Len(new_emails) + Len(history_emails),
                             total |-> max_emails, error |-> NULL]
    /\ last' = Done("background_sync")
    /\ UNCHANGED <<sync_stop_event, sync_threads, txnVars, catVars, timerVars, pageVars,
                   trainVars, gmailVars, threadVars, feedbackVars, requestVars>>

\* The provider receives a message, newer than those it holds.
message_arrives ==
    /\ \E ts \in Stamps :
           /\ \A held \in mailbox : held < ts
           /\ mailbox' = mailbox \cup {ts}
    /\ UNCHANGED <<dbVars, txnVars, catVars, webVars, backoff, besidesGmail>>

InitSettings == sync_window = [min |-> 0, max |-> 0]

(***************************************************************************)
(* POST /api/fetch handled by several request threads at once.  The        *)
(* handler tests sync_state['status'] and, in later statements, updates    *)
(* sync_state, clears the stop event and starts the thread; no lock is     *)
(* held from the test to the start.                                        *)
(***************************************************************************)
\* if sync_state['status'] == 'fetching': return ..., 400
api_fetch_guard(max_emails, fresh) ==
    /\ Len(sync_threads) + Len(fetch_requests) < MaxFetches
    /\ IF sync_state.status = "fetching"
       THEN /\ last' = Done("api_fetch_emails refused")
            /\ UNCHANGED fetch_requests
       ELSE /\ fetch_requests' = Append(fetch_requests,
                   [fresh |-> fresh,
                    max_emails |-> IF max_emails = 0 THEN DefaultMaxEmails
                                   ELSE max_emails])
            /\ last' = Done("api_fetch_emails guard passed")
    /\ UNCHANGED <<emails, sender_stats, dashboard_cache, upserts, txnVars, catVars,
                   webVars, triggers, besidesRequests>>

\* sync_state.update(...); sync_stop_event.clear(); thread.start()
api_fetch_start(k) ==
    /\ k \in 1..Len(fetch_requests)
    /\ sync_state' = [status |-> "fetching", current |-> 0,
                      total |-> fetch_requests[k].max_emails, error |-> NULL]
    /\ sync_stop_event' = FALSE
    /\ sync_threads' = Append(sync_threads,
           [pc |-> "start", fresh |-> fetch_requests[k].fresh, current_count |-> 0,
            max_emails |-> fetch_requests[k].max_emails])
    /\ fetch_requests' = [i \in 1..(Len(fetch_requests) - 1) |->
                             fetch_requests[IF i < k THEN i ELSE i + 1]]
    /\ last' = Done("api_fetch_emails")
    /\ UNCHANGED <<emails, sender_stats, dashboard_cache, upserts, txnVars, catVars,
                   timerVars, pageVars, trainVars, triggers, besidesRequests>>

(***************************************************************************)
(* trigger_background_refresh statement by statement, called by several    *)
(* request threads at once.  refresh_timer is a module global that every   *)
(* statement reads or writes again; a Timer is "created" until start() is  *)
(* called on it.                                                           *)
(***************************************************************************)
\* POST /api/delete up to the call of trigger_background_refresh()
api_delete_emails_marks(email_ids) ==
    /\ email_ids # {}
    /\ ~txn.open
    /\ Len(triggers) < MaxCalls
    /\ emails' = MarkDeleted(emails, email_ids)
    /\ upserts' = [id \in DOMAIN upserts |->
                      IF id \in email_ids /\ upserts[id] # <<>>
                      THEN <<[upserts[id][1] EXCEPT !.marked = TRUE]>>
                      ELSE upserts[id]]
    /\ last' = Done("mark_emails_deleted")
    /\ triggers' = Append(triggers, [pc |-> "cancel"])
    /\ UNCHANGED <<sender_stats, dashboard_cache, txnVars, catVars, webVars,
                   fetch_requests, besidesRequests>>

\* if refresh_timer: refresh_timer.cancel()
trigger_cancel(c) ==
    /\ c \in 1..Len(triggers)
    /\ triggers[c].pc = "cancel"
    /\ timers' = CancelTimer(timers, refresh_timer)
    /\ triggers' = [triggers EXCEPT ![c].pc = "create"]
    /\ UNCHANGED <<dbVars, txnVars, catVars, refresh_timer, burst, pageVars, trainVars,
                   syncVars, fetch_requests, besidesRequests>>

\* refresh_timer = threading.Timer(2.0, run_refresh)
trigger_create(c) ==
    /\ c \in 1..Len(triggers)
    /\ triggers[c].pc = "create"
    /\ timers' = Append(timers, [status |-> "created", left |-> Delay])
    /\ refresh_timer' = Len(timers) + 1
    /\ triggers' = [triggers EXCEPT ![c].pc = "start"]
    /\ UNCHANGED <<dbVars, txnVars, catVars, burst, pageVars, trainVars,
                   syncVars, fetch_requests, besidesRequests>>

\* refresh_timer.start(): of the Timer the global refers to by now; a
\* second start() of one Timer raises RuntimeError.
trigger_start(c) ==
    /\ c \in 1..Len(triggers)
    /\ triggers[c].pc = "start"
    /\ timers' = IF timers[refresh_timer].status = "created"
                 THEN [timers EXCEPT ![refresh_timer].status = "waiting"]
                 ELSE timers
    /\ burst' = [burst EXCEPT
                    !.calls = @ + 1,
                    !.bursts = IF Waiting(timers) = {} THEN @ + 1 ELSE @,
                    !.since = 0]
    /\ triggers' = [triggers EXCEPT ![c].pc = "done"]
    /\ UNCHANGED <<dbVars, txnVars, catVars, refresh_timer, pageVars, trainVars,
                   syncVars, fetch_requests, besidesRequests>>

InitRequests == fetch_requests = <<>> /\ triggers = <<>>

InitAux == InitGmail /\ InitThreads /\ InitFeedback /\ InitSettings /\ InitRequests

(***************************************************************************)
(* The Email objects the operations are given.                             *)
(***************************************************************************)
Emails(ids, senders, names, dates, reads, cats, links, mails, actions) ==
    [id : ids, sender_email : senders, sender : names, date : dates,
     is_read : reads, category : cats, unsubscribe_link : links,
     unsubscribe_email : mails, user_action : actions]

SeqsUpTo(S, n) == UNION {[1..k -> S] : k \in 0..n}

\* SpecStore: what the API accepts, any category or none, any user action
\* or none.
Inputs ==
    Emails(Ids, {"a@x", "b@x"}, {"Ann"}, {<<1, 0>>}, BOOLEAN,
           {NULL, "newsletter", "important"}, {NULL}, {NULL},
           {NULL, "keep", "delete"})

\* What a sync hands to save_emails_batch: categorized, no user action.
Fetched ==
    Emails(Ids, {"a@x", "b@x"}, {"Ann"}, {<<1, 0>>}, {FALSE},
           {"newsletter"}, {NULL}, {NULL}, {NULL})

\* Spec: messages as ingested, classified or not, no user action yet.
Ingested ==
    Emails(Ids, {"a@x", "b@x"}, {"Ann"}, {<<1, 0>>}, {FALSE},
           {NULL, "newsletter", "important"}, {NULL}, {NULL}, {NULL})

InitDb ==
    /\ emails = <<>>
    /\ sender_stats = <<>>
    /\ dashboard_cache = <<>>
    /\ upserts = [id \in Ids |-> <<>>]
    /\ last = Done("init")

InitTxn ==
    /\ txn = Closed
    /\ observed = <<>>

InitCat ==
    /\ msg = <<>>
    /\ clf = <<>>
    /\ verdict = <<>>

Init == InitDb /\ InitTxn /\ InitCat /\ InitWeb /\ InitAux

(***************************************************************************)
(* SpecStore: the message store alone, under every upsert and deletion.    *)
(***************************************************************************)
NextStore ==
    \/ \E e \in Inputs : save_email(e)
    \/ \E batch \in SeqsUpTo(Fetched, MaxBatch) : save_emails_batch(batch)
    \/ \E email_ids \in SUBSET Ids : mark_emails_deleted(email_ids)

SpecStore == Init /\ [][NextStore]_vars

(***************************************************************************)
(* Spec: the store and its aggregates.                                     *)
(***************************************************************************)
Next ==
    \/ \E e \in Ingested : save_email(e)
    \/ \E email_ids \in SUBSET Ids : mark_emails_deleted(email_ids)
    \/ refresh_sender_stats
    \/ refresh_all_stats

Spec == Init /\ [][Next]_vars


(***************************************************************************)
(* SpecRefresh: refresh_sender_stats statement by statement, with readers  *)
(* of sender_stats on other connections at every point of it.              *)
(***************************************************************************)
NextRefresh ==
    \/ \E e \in Fetched : save_email(e)
    \/ \E email_ids \in SUBSET Ids : mark_emails_deleted(email_ids)
    \/ refresh_sender_stats_delete
    \/ refresh_sender_stats_insert
    \/ refresh_sender_stats_commit
    \/ reader_get_sender_stats
    \/ reader_get_total_senders_count

SpecRefresh == Init /\ [][NextRefresh]_vars

(***************************************************************************)
(* SpecSenders: one sender writing under two display names, from two UTC   *)
(* offsets, with and without an unsubscribe link.  <<3, 2>> is 03:00+02:00 *)
(* and denotes the instant of <<1, 0>>, an hour before <<2, 0>>.           *)
(***************************************************************************)
Received ==
    Emails(Ids, {"a@x"}, {"Ann", "Zed"}, {<<1, 0>>, <<2, 0>>, <<3, 2>>}, {FALSE},
           {"newsletter"}, {NULL, "u1"}, {NULL}, {NULL})

NextSenders ==
    \/ \E e \in Received : save_email(e)
    \/ \E email_ids \in SUBSET Ids : mark_emails_deleted(email_ids)
    \/ refresh_sender_stats

SpecSenders == Init /\ [][NextSenders]_vars

(***************************************************************************)
(* SpecTies: the database opened on a store of many senders with equal     *)
(* counts: every sender has one message, at most MaxExtra of them a        *)
(* second one, and at most MaxReaders of them have read theirs.            *)
(***************************************************************************)
MaxExtra == 2
MaxReaders == 1

TieMessage(k, id, readers) ==
    ToRow([id |-> id,
           sender_email |-> SenderOrder[k],
           sender |-> "Ann",
           date |-> <<1, 0>>,
           is_read |-> SenderOrder[k] \in readers,
           category |-> "newsletter",
           unsubscribe_link |-> NULL,
           unsubscribe_email |-> NULL,
           user_action |-> NULL])

TieStore(extra, readers) ==
    [k \in 1..Len(SenderOrder) |-> TieMessage(k, k, readers)]
    \o SelectSeq([k \in 1..Len(SenderOrder) |->
                     TieMessage(k, Len(SenderOrder) + k, readers)],
                 LAMBDA r : r.sender_email \in extra)

TieStores ==
    {TieStore(extra, readers) :
        extra \in {S \in SUBSET Range(SenderOrder) : Cardinality(S) <= MaxExtra},
        readers \in {S \in SUBSET Range(SenderOrder) : Cardinality(S) <= MaxReaders}}

InitTies ==
    /\ emails \in TieStores
    /\ sender_stats = <<>>
    /\ dashboard_cache = <<>>
    /\ upserts = [id \in Ids |-> <<>>]
    /\ last = Done("init")
    /\ InitTxn
    /\ InitCat
    /\ InitWeb
    /\ InitAux

NextTies ==
    \/ \E email_ids \in SUBSET Ids : mark_emails_deleted(email_ids)
    \/ refresh_sender_stats
    \/ refresh_all_stats

SpecTies == InitTies /\ [][NextTies]_vars

(***************************************************************************)
(* SpecCategorize: categorize applied to every modelled message under      *)
(* every state of the classifier: not trained, trained with predict_proba  *)
(* raising, trained with a top class and its probability.                  *)
(***************************************************************************)
Messages ==
    [sender_email : Addresses,
     subject : SUBSET Vocabulary,
     unsubscribe_link : {NULL, "", "u1"},
     unsubscribe_email : {NULL, "m1"}]

Classifiers ==
    {[is_trained |-> FALSE, proba |-> <<>>], [is_trained |-> TRUE, proba |-> <<>>]}
    \cup {[is_trained |-> TRUE, proba |-> <<[category |-> c, confidence |-> p]>>] :
             c \in {"spam", "personal"}, p \in {40, 41, 70, 71}}

InitCategorize ==
    /\ InitDb
    /\ InitTxn
    /\ msg \in Messages
    /\ clf \in Classifiers
    /\ verdict = <<>>
    /\ InitWeb
    /\ InitAux

NextCategorize == categorize_batch

SpecCategorize == InitCategorize /\ [][NextCategorize]_vars

(***************************************************************************)
(* SpecDebounce: delete requests, one after the other, on a store of       *)
(* MaxBatch messages, and the timers they start.  Time passes, and a timer  *)
(* whose interval is over fires.                                           *)
(***************************************************************************)
SyncedStores ==
    {InsertAll(<<>>, batch) :
        batch \in {b \in [1..MaxBatch -> Fetched] :
                      \A i, j \in 1..MaxBatch : b[i].id = b[j].id => i = j}}

InitDebounce ==
    /\ emails \in SyncedStores
    /\ sender_stats = <<>>
    /\ dashboard_cache = <<>>
    /\ upserts = [id \in Ids |-> <<>>]
    /\ last = Done("init")
    /\ InitTxn
    /\ InitCat
    /\ InitWeb
    /\ InitAux

NextDebounce ==
    \/ \E email_ids \in SUBSET Ids : api_delete_emails(email_ids)
    \/ Tick
    \/ \E i \in 1..MaxCalls : timer_fires(i)
    \/ \E i \in 1..MaxCalls : run_refresh(i)

SpecDebounce ==
    /\ InitDebounce
    /\ [][NextDebounce]_vars
    /\ WF_vars(Tick)
    /\ \A i \in 1..MaxCalls : WF_vars(timer_fires(i))

(***************************************************************************)
(* SpecFailure: the store and its aggregates, with refreshes that raise.   *)
(***************************************************************************)
NextFailure ==
    \/ \E e \in Fetched : save_email(e)
    \/ \E email_ids \in SUBSET Ids : mark_emails_deleted(email_ids)
    \/ refresh_all_stats
    \/ \E at \in FailurePoints : refresh_all_stats_raises(at)

SpecFailure == Init /\ [][NextFailure]_vars

(***************************************************************************)
(* SpecPages: dashboard reads, with the two halves of refresh_all_stats    *)
(* interleaved with the writes of other threads.                           *)
(***************************************************************************)
NextPages ==
    \/ \E e \in Fetched : save_email(e)
    \/ refresh_sender_stats
    \/ refresh_global_stats
    \/ index
    \/ api_stats

SpecPages == Init /\ [][NextPages]_vars

(***************************************************************************)
(* SpecBulk: ingested messages and the bulk deletions, by route and by the *)
(* core operation.                                                         *)
(***************************************************************************)
NextBulk ==
    \/ \E e \in Ingested : save_email(e)
    \/ \E email_ids \in SUBSET Ids : mark_emails_deleted(email_ids)
    \/ \E s \in {"a@x", "b@x"} : api_delete_by_sender(s)
    \/ \E c \in EmailCategory : api_delete_by_category(c)

SpecBulk == Init /\ [][NextBulk]_vars

(***************************************************************************)
(* SpecTrain: the categorizer under every training call and outcome.       *)
(***************************************************************************)
FeedbackRows ==
    [delete : 0..MaxExamples, keep : 0..MaxExamples, bogus : 0..MaxExamples]

NextTrain ==
    \/ \E data \in TrainingData, outcome \in TrainOutcomes : train(data, outcome)
    \/ \E rows \in FeedbackRows, outcome \in TrainOutcomes :
           train_from_database(rows, outcome)

SpecTrain == Init /\ [][NextTrain]_vars

(***************************************************************************)
(* SpecMood: refresh_global_stats on stores of MaxTotal - 1 and MaxTotal   *)
(* active messages (and on the empty store), with every mix of category    *)
(* counts just below and just above the thresholds of the mood rules; the   *)
(* remainder of a store is uncertain messages.                              *)
(***************************************************************************)
MaxTotal == 20

Mixes ==
    [important : {0, 6, 7}, promotions : {0, 4}, ads : {0, 3}, spam : {0, 3, 4},
     social : {0, 8, 9}, newsletter : {0, 8, 9}, personal : {0, 6, 7}]

MixTotal(mix) ==
    mix.important + mix.promotions + mix.ads + mix.spam + mix.social
    + mix.newsletter + mix.personal

MixCategories(mix, total) ==
    [i \in 1..mix.important |-> "important"]
    \o [i \in 1..mix.promotions |-> "promotions"]
    \o [i \in 1..mix.ads |-> "ads"]
    \o [i \in 1..mix.spam |-> "spam"]
    \o [i \in 1..mix.social |-> "social"]
    \o [i \in 1..mix.newsletter |-> "newsletter"]
    \o [i \in 1..mix.personal |-> "personal"]
    \o [i \in 1..(total - MixTotal(mix)) |-> "uncertain"]

MixStore(mix, total) ==
    LET cats == MixCategories(mix, total)
    IN  [i \in 1..Len(cats) |->
            ToRow([id |-> i,
                   sender_email |-> "a@x",
                   sender |-> "Ann",
                   date |-> <<1, 0>>,
                   is_read |-> FALSE,
                   category |-> cats[i],
                   unsubscribe_link |-> NULL,
                   unsubscribe_email |-> NULL,
                   user_action |-> NULL])]

MixStores ==
    {<<>>} \cup {MixStore(mix, total) :
                    mix \in {m \in Mixes : MixTotal(m) <= MaxTotal - 1},
                    total \in {MaxTotal - 1, MaxTotal}}
           \cup {MixStore(mix, MaxTotal) : mix \in {m \in Mixes : MixTotal(m) = MaxTotal}}

InitMood ==
    /\ emails \in MixStores
    /\ sender_stats = <<>>
    /\ dashboard_cache = <<>>
    /\ upserts = [id \in Ids |-> <<>>]
    /\ last = Done("init")
    /\ InitTxn
    /\ InitCat
    /\ InitWeb
    /\ InitAux

NextMood ==
    \/ refresh_sender_stats
    \/ refresh_global_stats

SpecMood == InitMood /\ [][NextMood]_vars

(***************************************************************************)
(* SpecSnapshot: the dashboard snapshot of stores that hold messages of    *)
(* the kept categories (important, uncertain, personal) and of one other.   *)
(***************************************************************************)
Classified ==
    Emails(Ids, {"a@x"}, {"Ann"}, {<<1, 0>>}, BOOLEAN,
           {"important", "uncertain", "personal", "spam"}, {NULL}, {NULL}, {NULL})

NextSnapshot ==
    \/ \E e \in Classified : save_email(e)
    \/ \E email_ids \in SUBSET Ids : mark_emails_deleted(email_ids)
    \/ refresh_all_stats

SpecSnapshot == Init /\ [][NextSnapshot]_vars

(***************************************************************************)
(* SpecGroups: the grouped reads on stores of three senders, each with     *)
(* none, one or MaxPerSender read messages, none or MaxPerSender unread    *)
(* ones and possibly a deleted one, so that senders tie, senders have more *)
(* than 5 active messages, and senders lack read or unread messages; and   *)
(* on the store of the grouping tests (10, 5 and 2 messages).              *)
(***************************************************************************)
MaxPerSender == 3

GroupSenders == <<"a@x", "b@x", "c@x">>

Shapes == [read : {0, 1, MaxPerSender}, unread : {0, MaxPerSender}, deleted : {0, 1}]

\* The messages of sender k: the read ones, the unread ones, the deleted one.
ShapeRows(k, shape) ==
    [i \in 1..(shape.read + shape.unread + shape.deleted) |->
        ToRow([id |-> 100 * k + i,
               sender_email |-> GroupSenders[k],
               sender |-> "Ann",
               date |-> <<1 + (i % 2), 0>>,
               is_read |-> i <= shape.read,
               category |-> IF i % 2 = 0 THEN "newsletter" ELSE "personal",
               unsubscribe_link |-> NULL,
               unsubscribe_email |-> NULL,
               user_action |-> IF i > shape.read + shape.unread
                               THEN "delete" ELSE NULL])]

GroupStores ==
    {ShapeRows(1, sa) \o ShapeRows(2, sb) \o ShapeRows(3, sc) :
        sa \in Shapes, sb \in Shapes, sc \in {sh \in Shapes : sh.read <= 1}}

\* TestGroupingCorrectness.setUp
TestRows(k, n, category, reads) ==
    [i \in 1..n |->
        ToRow([id |-> 100 * k + i,
               sender_email |-> GroupSenders[k],
               sender |-> "Ann",
               date |-> <<30 - 10 * k - i, 0>>,
               is_read |-> i <= reads,
               category |-> category,
               unsubscribe_link |-> NULL,
               unsubscribe_email |-> NULL,
               user_action |-> NULL])]

TestStore ==
    TestRows(1, 10, "personal", 5) \o TestRows(2, 5, "newsletter", 5)
    \o TestRows(3, 2, "spam", 0)

ReadFilters == {"all", "read", "unread"}

InitGroups ==
    /\ emails \in GroupStores \cup {TestStore}
    /\ sender_stats = <<>>
    /\ dashboard_cache = <<>>
    /\ upserts = [id \in Ids |-> <<>>]
    /\ last = Done("init")
    /\ InitTxn
    /\ InitCat
    /\ InitWeb
    /\ InitAux

NextGroups ==
    \/ \E read_filter \in ReadFilters, limit \in {1, 2, 10} :
           grouped_by_sender(read_filter, limit)
    \/ \E limit \in {1, 2, 50, 1000} : api_get_top_senders(limit)
    \/ \E read_filter \in ReadFilters : api_get_emails_grouped(read_filter)

SpecGroups == InitGroups /\ [][NextGroups]_vars

(***************************************************************************)
(* SpecSync: fetch requests, stop requests and status reads, and the       *)
(* background_sync threads the accepted fetches start, each running to its *)
(* final status (or into its except clause) at its own pace.               *)
(***************************************************************************)
\* What Gmail delivers to a sync: up to MaxBatch messages of one sender.
Delivered == SeqsUpTo({e \in Fetched : e.sender_email = "a@x"}, MaxBatch)

NextSync ==
    \/ \E max_emails \in {0, 1}, fresh \in BOOLEAN : api_fetch_emails(max_emails, fresh)
    \/ \E i \in 1..MaxFetches, batch \in Delivered : background_sync_fetch(i, batch)
    \/ \E i \in 1..MaxFetches, cleared \in BOOLEAN : background_sync_raises(i, cleared)
    \/ \E i \in 1..MaxFetches : background_sync_final_check(i)
    \/ \E i \in 1..MaxFetches : background_sync_final_status(i)
    \/ \E i \in 1..MaxFetches : background_sync_refresh(i)
    \/ \E i \in 1..MaxFetches, at \in FailurePoints : background_sync_refresh_raises(i, at)
    \/ api_stop_sync
    \/ api_fetch_status

SpecSync == Init /\ [][NextSync]_vars

(***************************************************************************)
(* SpecBackoff: provider calls under _exponential_backoff, whatever func() *)
(* does on each attempt.  The loop runs on: an attempt that can be made is *)
(* made, and the loop's end is reached.                                    *)
(***************************************************************************)
NextBackoff ==
    \/ exponential_backoff_call
    \/ \E status \in Statuses : exponential_backoff_attempt(status)
    \/ exponential_backoff_exhausted

SpecBackoff ==
    /\ Init
    /\ [][NextBackoff]_vars
    /\ WF_vars(\E status \in Statuses : exponential_backoff_attempt(status))
    /\ WF_vars(exponential_backoff_exhausted)

(***************************************************************************)
(* SpecInterleave: refresh_all_stats statement by statement, with saves,   *)
(* deletions and a second refresh_all_stats on other connections between   *)
(* any two of its statements.                                              *)
(***************************************************************************)
\* The messages saved while the refresh runs: one id, from either sender.
Interleaved == {e \in Fetched : e.id = 1}

NextInterleave ==
    \/ \E e \in Interleaved : save_email(e)
    \/ \E email_ids \in SUBSET Ids : mark_emails_deleted(email_ids)
    \/ refresh_all_stats
    \/ stepwise_refresh_sender_stats
    \/ stepwise_get_category_stats
    \/ stepwise_get_sender_stats
    \/ stepwise_get_leaderboard_stats
    \/ stepwise_get_total_senders_count
    \/ stepwise_set_setting

SpecInterleave == Init /\ [][NextInterleave]_vars

(***************************************************************************)
(* SpecSchedule: the operations that logically delete messages, and the    *)
(* refresh timers they start, on a store a sync has filled.                *)
(***************************************************************************)
ScheduleStores ==
    {table \in SyncedStores : table[1].id = 1 /\ table[1].sender_email = "a@x"}

InitSchedule ==
    /\ emails \in ScheduleStores
    /\ sender_stats = <<>>
    /\ dashboard_cache = <<>>
    /\ upserts = [id \in Ids |-> <<>>]
    /\ last = Done("init")
    /\ InitTxn
    /\ InitCat
    /\ InitWeb
    /\ InitAux

NextSchedule ==
    \/ \E email_ids \in SUBSET Ids : api_delete_emails(email_ids)
    \/ \E email_id \in Ids, success \in {0, 1} : api_delete_single_email(email_id, success)
    \/ \E s \in {"a@x", "b@x"} : api_delete_by_sender(s)
    \/ \E c \in EmailCategory : api_delete_by_category(c)
    \/ \E email_id \in Ids, decision \in Decisions, correct_category \in {NULL, "spam"} :
           api_submit_feedback(email_id, decision, correct_category)
    \/ Tick
    \/ \E i \in 1..MaxCalls : timer_fires(i)
    \/ \E i \in 1..MaxCalls : run_refresh(i)

SpecSchedule ==
    /\ InitSchedule
    /\ [][NextSchedule]_vars
    /\ WF_vars(Tick)
    /\ \A i \in 1..MaxCalls : WF_vars(timer_fires(i))

(***************************************************************************)
(* SpecGaps: incremental syncs with any quota, while the provider goes on  *)
(* receiving messages.                                                     *)
(***************************************************************************)
InitGaps ==
    /\ emails = <<>>
    /\ sender_stats = <<>>
    /\ dashboard_cache = <<>>
    /\ upserts = [id \in Stamps |-> <<>>]
    /\ last = Done("init")
    /\ InitTxn
    /\ InitCat
    /\ InitWeb
    /\ InitAux

NextGaps ==
    \/ message_arrives
    \/ \E max_emails \in 1..MaxStamp : background_sync(max_emails)

SpecGaps == InitGaps /\ [][NextGaps]_vars

(***************************************************************************)
(* SpecFetchRace: fetch requests handled concurrently, beside the sync     *)
(* threads they start.                                                     *)
(***************************************************************************)
NextFetchRace ==
    \/ \E max_emails \in {0, 1}, fresh \in BOOLEAN : api_fetch_guard(max_emails, fresh)
    \/ \E k \in 1..MaxFetches : api_fetch_start(k)
    \/ \E i \in 1..MaxFetches, batch \in Delivered : background_sync_fetch(i, batch)
    \/ \E i \in 1..MaxFetches : background_sync_final_check(i)
    \/ \E i \in 1..MaxFetches : background_sync_final_status(i)
    \/ \E i \in 1..MaxFetches : background_sync_refresh(i)
    \/ api_stop_sync

SpecFetchRace == Init /\ [][NextFetchRace]_vars

(***************************************************************************)
(* SpecTimerRace: deletions handled concurrently, each scheduling the      *)
(* refresh, and the timers they leave.                                     *)
(***************************************************************************)
NextTimerRace ==
    \/ \E email_ids \in SUBSET Ids : api_delete_emails_marks(email_ids)
    \/ \E c \in 1..MaxCalls : trigger_cancel(c)
    \/ \E c \in 1..MaxCalls : trigger_create(c)
    \/ \E c \in 1..MaxCalls : trigger_start(c)
    \/ Tick
    \/ \E i \in 1..MaxCalls : timer_fires(i)
    \/ \E i \in 1..MaxCalls : run_refresh(i)

SpecTimerRace == InitSchedule /\ [][NextTimerRace]_vars

(***************************************************************************)
(* SpecSubscriptions: a newsletter sender with three messages, received    *)
(* one after the other, any of them with an unsubscribe link or address,   *)
(* and any of them deleted.                                                *)
(***************************************************************************)
MaxLetters == 3

Letter(id) ==
    Emails({id}, {"a@x"}, {"Ann"}, {<<id, 0>>}, {FALSE}, {"newsletter"},
           {NULL, "u1"}, {NULL, "m1"}, {NULL})

LetterStores ==
    {InsertAll(<<>>, <<first, second, third>>) :
        first \in Letter(1), second \in Letter(2), third \in Letter(MaxLetters)}

InitSubscriptions ==
    /\ emails \in LetterStores
    /\ sender_stats = <<>>
    /\ dashboard_cache = <<>>
    /\ upserts = [id \in 1..MaxLetters |-> <<>>]
    /\ last = Done("init")
    /\ InitTxn
    /\ InitCat
    /\ InitWeb
    /\ InitAux

NextSubscriptions ==
    \E email_ids \in SUBSET (1..MaxLetters) : mark_emails_deleted(email_ids)

SpecSubscriptions == InitSubscriptions /\ [][NextSubscriptions]_vars

(***************************************************************************)
(* Reference notions the claims are stated with.                           *)
(***************************************************************************)
Deleted(r) == r.user_action = "delete"

Kept(table) == {i \in 1..Len(table) : ~Deleted(table[i])}

KeptOf(table, s) == {i \in Kept(table) : table[i].sender_email = s}

KeptIn(table, c) == {i \in Kept(table) : table[i].category = c}

NoneDeleted(rows) == \A i \in 1..Len(rows) : ~Deleted(rows[i])

Senders == Range(SenderOrder)

Refreshed == last.op \in {"refresh_sender_stats", "refresh_all_stats"}

(***************************************************************************)
(* C1.  After refresh_sender_stats (alone or as the first half of          *)
(* refresh_all_stats), following any saves and deletions, the sum of       *)
(* total_emails over the sender_stats rows is the number of stored         *)
(* messages whose user_action is not 'delete'.                             *)
(***************************************************************************)
C1_SumOfTotalsIsActiveCount ==
    Refreshed => SumOf(sender_stats, "total_emails") = Cardinality(Kept(emails))

C1_Witness ==
    /\ last.op = "refresh_sender_stats"
    /\ Len(sender_stats) = 1
    /\ \E i, j \in 1..Len(emails) :
           /\ Deleted(emails[i])
           /\ ~Deleted(emails[j])
           /\ emails[i].sender_email = emails[j].sender_email


(***************************************************************************)
(* C2.  In every reachable state of the store, no active-set query         *)
(* returns a message whose user_action is 'delete': the row queries        *)
(* return no such row or id, and the grouped queries count exactly the     *)
(* messages that are not deleted and take their sample id from one.        *)
(***************************************************************************)
C2_RowQueries ==
    /\ \A f \in {"all", "read", "unread"} :
           NoneDeleted(get_all_emails(emails, f, Len(emails), 0))
    /\ \A c \in EmailCategory :
           /\ NoneDeleted(get_emails_by_category(emails, c, Len(emails), 0))
           /\ \A i \in 1..Len(emails) :
                  Deleted(emails[i]) =>
                      emails[i].id \notin Range(get_email_ids_by_category(emails, c))
    /\ \A s \in Senders :
           /\ NoneDeleted(get_emails_by_sender(emails, s, Len(emails), 0))
           /\ \A i \in 1..Len(emails) :
                  Deleted(emails[i]) =>
                      emails[i].id \notin Range(get_email_ids_by_sender(emails, s))

C2_GroupedQueries ==
    /\ \A g \in Range(get_top_sender_groups(emails, Len(emails))) :
           g.total = Cardinality(KeptOf(emails, g.sender_email))
    /\ \A c \in Range(get_category_stats(emails)) :
           c.count = Cardinality(KeptIn(emails, c.category))
    /\ \A g \in Range(get_leaderboard_stats(emails).chatty)
                \cup Range(get_leaderboard_stats(emails).spammers) :
           g.count = Cardinality(KeptOf(emails, g.sender_email))
    /\ \A g \in Range(SubscriptionCandidates(emails, Len(emails))) :
           /\ g.count = Cardinality(KeptOf(emails, g.sender_email)
                                    \cap (KeptIn(emails, "newsletter")
                                          \cup KeptIn(emails, "promotions")))
           /\ \E i \in Kept(emails) : emails[i].id = g.sample_id

C2_DeletedNeverReturned == C2_RowQueries /\ C2_GroupedQueries

C2_Witness ==
    \E i, j \in 1..Len(emails) :
        /\ Deleted(emails[i])
        /\ emails[j].user_action = "keep"
        /\ emails[i].sender_email = emails[j].sender_email
        /\ emails[i].category = "newsletter"
        /\ emails[j].category = "newsletter"
        /\ Len(get_all_emails(emails, "all", Len(emails), 0)) = 1

(***************************************************************************)
(* C3.  After any sequence of save_email and save_emails_batch calls the   *)
(* store holds at most one row per id, and reading the id back gives the   *)
(* Email of the last upsert made for it.                                   *)
(***************************************************************************)
RowsWithId(id) == {i \in 1..Len(emails) : emails[i].id = id}

C3_UpsertOverwrites ==
    \A id \in Ids :
        /\ Cardinality(RowsWithId(id)) <= 1
        /\ (upserts[id] # <<>> /\ ~upserts[id][1].marked) =>
               get_email(emails, id) = <<upserts[id][1].email>>

C3_Witness ==
    /\ last.op = "save_emails_batch"
    /\ last.replaced
    /\ Len(emails) = 2
    /\ \A id \in Ids : upserts[id] # <<>> /\ ~upserts[id][1].marked


(***************************************************************************)
(* C4.  mark_emails_deleted(ids) changes only the user_action of the rows  *)
(* whose id is in ids: no row is removed, no other row or field and no     *)
(* aggregate changes.  After a following refresh_all_stats a sender all of *)
(* whose messages were marked has no sender_stats row, and each category   *)
(* count is lower by exactly the number of messages of that category the   *)
(* call marked (those in ids that were active before it).                  *)
(***************************************************************************)
MarkedHere(ids, c) ==
    {i \in Kept(emails) : emails[i].id \in ids /\ emails[i].category = c}

C4_Frame(ids) ==
    /\ Len(emails') = Len(emails)
    /\ \A i \in 1..Len(emails) :
           emails'[i] = IF emails[i].id \in ids
                        THEN [emails[i] EXCEPT !.user_action = "delete"]
                        ELSE emails[i]
    /\ sender_stats' = sender_stats
    /\ dashboard_cache' = dashboard_cache

C4_AfterRefresh(ids) ==
    \A after \in {RefreshAllStats(emails', sender_stats')},
       before \in {get_category_stats(emails)} :
        /\ \A s \in Senders :
               (\A i \in 1..Len(emails) :
                    emails[i].sender_email = s => emails[i].id \in ids)
               => \A k \in 1..Len(after.sender_stats) : after.sender_stats[k].email # s
        /\ \A c \in EmailCategory :
               CountOf(after.dashboard_cache[1].categories, c)
                   = CountOf(before, c) - Cardinality(MarkedHere(ids, c))

C4_MarkDeletedOnlyMarks ==
    [][\A ids \in SUBSET Ids :
           mark_emails_deleted(ids) => C4_Frame(ids) /\ C4_AfterRefresh(ids)]_vars

C4_Witness ==
    /\ last.op = "refresh_all_stats"
    /\ Len(emails) = 2
    /\ Deleted(emails[1])
    /\ ~Deleted(emails[2])
    /\ emails[1].sender_email # emails[2].sender_email
    /\ emails[1].category = "newsletter"
    /\ emails[2].category = "newsletter"
    /\ Len(sender_stats) = 1
    /\ sender_stats[1].email = emails[2].sender_email
    /\ CountOf(dashboard_cache[1].categories, "newsletter") = 1

(***************************************************************************)
(* C5.  A read of sender_stats (get_sender_stats or                        *)
(* get_total_senders_count) made while refresh_sender_stats is under way   *)
(* returns what the same query gives on the complete table from before     *)
(* the refresh or on the complete table after it, never the emptied or a   *)
(* partly filled table.                                                    *)
(***************************************************************************)
QueryOn(query, stats) ==
    IF query = "get_sender_stats"
    THEN get_sender_stats(stats, TopSendersLimit, 0)
    ELSE get_total_senders_count(stats)

C5_ReaderSeesWholeTable ==
    [][((reader_get_sender_stats \/ reader_get_total_senders_count) /\ txn.open)
       => observed'[1].result
              \in {QueryOn(observed'[1].query, txn.before),
                   QueryOn(observed'[1].query,
                           RefreshSenderStats(txn.before, emails))}]_vars

C5_Witness ==
    /\ txn.open
    /\ txn.step = "deleted"
    /\ Len(txn.before) = 1
    /\ Len(SenderAggregate(emails)) = 2
    /\ observed # <<>>
    /\ observed[1].during = "deleted"
    /\ observed[1].query = "get_sender_stats"
    /\ Len(observed[1].result) = 1

(***************************************************************************)
(* C6.  A refresh_all_stats that directly follows a refresh_all_stats,     *)
(* with no change of the store in between, writes the dashboard snapshot   *)
(* the first one wrote, also when senders tie on the message count or the  *)
(* unread count at the top-5 and top-10 cut-offs.                          *)
(***************************************************************************)
C6_RefreshTwiceSameSnapshot ==
    [][(refresh_all_stats /\ last.op = "refresh_all_stats")
       => dashboard_cache' = dashboard_cache]_vars

LeftOut(listed) ==
    {k \in 1..Len(sender_stats) :
        \A i \in 1..Len(listed) : listed[i].email # sender_stats[k].email}

C6_Witness ==
    /\ last.op = "refresh_all_stats"
    /\ last.repeated
    /\ \A top \in {dashboard_cache[1].top_senders} :
           /\ Len(top) = TopSendersLimit
           /\ \E k \in LeftOut(top) :
                  sender_stats[k].total_emails = top[TopSendersLimit].count
    /\ \A chatty \in {dashboard_cache[1].leaderboard.chatty} :
           /\ Len(chatty) = LeaderboardLimit
           /\ \E k \in 1..Len(sender_stats) :
                  /\ \A i \in 1..Len(chatty) :
                         chatty[i].sender_email # sender_stats[k].email
                  /\ sender_stats[k].total_emails = chatty[LeaderboardLimit].count
                  /\ chatty[1].count > chatty[LeaderboardLimit].count
    /\ \A spammers \in {dashboard_cache[1].leaderboard.spammers} :
           /\ Len(spammers) = LeaderboardLimit
           /\ \E k \in 1..Len(sender_stats) :
                  /\ \A i \in 1..Len(spammers) :
                         spammers[i].sender_email # sender_stats[k].email
                  /\ sender_stats[k].unread_count = spammers[LeaderboardLimit].unread
                  /\ sender_stats[k].total_emails = spammers[LeaderboardLimit].count

(***************************************************************************)
(* C7.  Every candidate of get_subscription_stats reports the              *)
(* unsubscribe_link and unsubscribe_email of a most recently dated message *)
(* of its sender: of a stored message of the sender than which no stored   *)
(* message of the sender has a later date.                                 *)
(***************************************************************************)
InstantOf(r) == timestamp(fromisoformat(r.date))

C7_UnsubscribeOfMostRecent ==
    \A g \in Range(get_subscription_stats(emails, Len(emails))) :
        \E i \in 1..Len(emails) :
            /\ emails[i].sender_email = g.sender_email
            /\ emails[i].unsubscribe_link = g.unsubscribe_link
            /\ emails[i].unsubscribe_email = g.unsubscribe_email
            /\ \A j \in 1..Len(emails) :
                   emails[j].sender_email = g.sender_email
                   => InstantOf(emails[j]) <= InstantOf(emails[i])

(***************************************************************************)
(* C8.  categorize returns the result of the first applicable step, in     *)
(* this order: (1) model confidence above 0.70: the model's category and   *)
(* confidence; (2) top keyword score at least 3: a top-scoring category,   *)
(* with min(0.5 + 0.1 * score, 0.85); (3) a sender domain match: a matched *)
(* category, with 0.6; (4) an unsubscribe affordance: newsletter 0.5 if    *)
(* the newsletter score exceeds the ads score, else ads 0.5 if the ads     *)
(* score is positive, else promotions 0.4; (5) model confidence above      *)
(* 0.40: the model's category and confidence; (6) a positive keyword       *)
(* score: a top-scoring category, with 0.3; (7) otherwise uncertain, 0.2.  *)
(***************************************************************************)
ScoreOf(c) ==
    Cardinality({kw \in CATEGORY_KEYWORDS[c] :
        \/ \E w \in msg.subject : kw \in WordSubstrings(w)
        \/ \E w \in AddressWords(msg.sender_email) : kw \in WordSubstrings(w)})

Scores == [c \in Range(KeywordOrder) |-> ScoreOf(c)]

TopOf(scores) ==
    CHOOSE n \in Range([i \in 1..Len(KeywordOrder) |-> scores[KeywordOrder[i]]]) :
        \A c \in Range(KeywordOrder) : scores[c] <= n

TopCategories(scores) == {c \in Range(KeywordOrder) : scores[c] = TopOf(scores)}

DomainMatches ==
    {c \in Range(DomainOrder) :
        DOMAIN_CATEGORIES[c] \cap AddressSubstrings(msg.sender_email) # {}}

ModelSays == IF clf.is_trained /\ clf.proba # <<>> THEN clf.proba ELSE <<>>

ModelAbove(p) == ModelSays # <<>> /\ ModelSays[1].confidence > p

Affordance ==
    \/ msg.unsubscribe_link \notin {NULL, ""}
    \/ msg.unsubscribe_email \notin {NULL, ""}

StepTaken(top) ==
    IF ModelAbove(70) THEN 1
    ELSE IF top >= 3 THEN 2
    ELSE IF DomainMatches # {} THEN 3
    ELSE IF Affordance THEN 4
    ELSE IF ModelAbove(40) THEN 5
    ELSE IF top > 0 THEN 6
    ELSE 7

StepResult(step, scores, v) ==
    CASE step = 1 -> v = Result(ModelSays[1].category, ModelSays[1].confidence)
      [] step = 2 -> /\ v.category \in TopCategories(scores)
                     /\ v.confidence = Min(50 + 10 * TopOf(scores), 85)
      [] step = 3 -> v.category \in DomainMatches /\ v.confidence = 60
      [] step = 4 -> v = IF scores["newsletter"] > scores["ads"]
                         THEN Result("newsletter", 50)
                         ELSE IF scores["ads"] > 0
                         THEN Result("ads", 50)
                         ELSE Result("promotions", 40)
      [] step = 5 -> v = Result(ModelSays[1].category, ModelSays[1].confidence)
      [] step = 6 -> v.category \in TopCategories(scores) /\ v.confidence = 30
      [] step = 7 -> v = Result("uncertain", 20)

C9_SnapshotFromStore ==
    last.op = "refresh_all_stats" =>
        /\ dashboard_cache[1].total_emails = Cardinality(Kept(emails))
        /\ dashboard_cache[1].total_unread
               = Cardinality({i \in Kept(emails) : emails[i].is_read = 0})
        /\ dashboard_cache[1].total_senders
               = Cardinality({emails[i].sender_email : i \in Kept(emails)})

(***************************************************************************)
(* C10.  After refresh_sender_stats, sender_stats has exactly one row per  *)
(* distinct sender address of the active messages, and the row's fields    *)
(* are the reference aggregate over that sender's active messages: name    *)
(* the display name of a most recent one, total_emails their number,       *)
(* unread_count the number of unread ones, last_received the latest        *)
(* timestamp, has_unsubscribe whether one has an unsubscribe link or       *)
(* address.                                                                *)
(***************************************************************************)
Latest(mine) ==
    {i \in mine : \A j \in mine : InstantOf(emails[j]) <= InstantOf(emails[i])}

C10_RowIsReferenceAggregate ==
    last.op = "refresh_sender_stats" =>
        /\ {sender_stats[k].email : k \in 1..Len(sender_stats)}
               = {emails[i].sender_email : i \in Kept(emails)}
        /\ \A k, l \in 1..Len(sender_stats) :
               sender_stats[k].email = sender_stats[l].email => k = l
        /\ \A k \in 1..Len(sender_stats) :
               \A mine \in {KeptOf(emails, sender_stats[k].email)} :
                   /\ \E i \in Latest(mine) : sender_stats[k].name = emails[i].sender
                   /\ sender_stats[k].total_emails = Cardinality(mine)
                   /\ sender_stats[k].unread_count
                          = Cardinality({i \in mine : emails[i].is_read = 0})
                   /\ \E i \in Latest(mine) :
                          timestamp(fromisoformat(sender_stats[k].last_received))
                              = InstantOf(emails[i])
                   /\ (sender_stats[k].has_unsubscribe # 0)
                          <=> \E i \in mine :
                                  \/ emails[i].unsubscribe_link # NULL
                                  \/ emails[i].unsubscribe_email # NULL

(***************************************************************************)
(* C11.  Calls of trigger_background_refresh that follow one another by    *)
(* less than the delay form a burst.  Every burst has exactly one          *)
(* refresh_all_stats, pending or started; the timer that fires is the one  *)
(* the last call started, a full delay after that call; a refresh that has *)
(* started is not stopped by a later call; and the refresh of the last     *)
(* call does start.                                                        *)
(***************************************************************************)
C11_OnePerBurst == burst.runs + Cardinality(Waiting(timers)) = burst.bursts

C11_FiresAfterLastCall ==
    \A i \in 1..MaxCalls :
        timer_fires(i) => i = refresh_timer /\ burst.since = Delay

C11_RunsToCompletion ==
    \A i \in 1..Len(timers) :
        timers[i].status = "running" => timers'[i].status \in {"running", "finished"}

C11_Debounce ==
    /\ []C11_OnePerBurst
    /\ [][C11_FiresAfterLastCall /\ C11_RunsToCompletion]_vars
    /\ (refresh_timer # 0)
           ~> (refresh_timer # 0
               /\ timers[refresh_timer].status \in {"running", "finished"})

C11_Witness ==
    /\ burst.calls = 3
    /\ burst.bursts = 2
    /\ burst.runs = 1
    /\ timers[1].status = "cancelled"
    /\ timers[2].status = "running"
    /\ timers[3].status = "waiting"

(***************************************************************************)
(* C12.  A refresh_all_stats that fails, at whichever step, leaves the     *)
(* sender_stats table and the dashboard_cache entry as they were before    *)
(* the call.                                                               *)
(***************************************************************************)
C12_FailedRefreshChangesNothing ==
    [][\A at \in FailurePoints :
           refresh_all_stats_raises(at)
           => sender_stats' = sender_stats /\ dashboard_cache' = dashboard_cache]_vars

(***************************************************************************)
(* C13.  A dashboard read (index or api_stats) that finds an inconsistent  *)
(* cache entry (total_emails > 0 and no sender aggregates) runs            *)
(* refresh_all_stats before it responds, and responds with the snapshot    *)
(* that refresh wrote.                                                     *)
(***************************************************************************)
Inconsistent(cache) ==
    /\ cache # <<>>
    /\ cache[1].total_emails > 0
    /\ cache[1].total_senders = 0

C13_InconsistentCacheHealed ==
    [][((index \/ api_stats) /\ Inconsistent(dashboard_cache))
       => \A after \in {RefreshAllStats(emails, sender_stats)} :
              /\ sender_stats' = after.sender_stats
              /\ dashboard_cache' = after.dashboard_cache
              /\ served'[1].stats = after.dashboard_cache]_vars

(***************************************************************************)
(* C14.  No bulk deletion marks a message of a protected category          *)
(* (important, uncertain): a delete-by-category request naming one is      *)
(* refused and changes no row, a delete-by-sender request leaves the       *)
(* sender's protected messages active, and so does the core operation      *)
(* mark_emails_deleted.                                                    *)
(***************************************************************************)
Protected(r) == r.category \in {"important", "uncertain"}

ProtectedStayActive ==
    \A i \in 1..Len(emails) :
        (Protected(emails[i]) /\ ~Deleted(emails[i]))
        => (Len(emails') >= i /\ emails'[i] = emails[i])

C14_ProtectedNeverBulkDeleted ==
    [][/\ \A c \in {"important", "uncertain"} :
              api_delete_by_category(c) => emails' = emails
       /\ ((\E c \in EmailCategory : api_delete_by_category(c))
           \/ (\E s \in Senders : api_delete_by_sender(s))
           \/ (\E ids \in SUBSET Ids : mark_emails_deleted(ids)))
          => ProtectedStayActive]_vars

(***************************************************************************)
(* C15.  train reports failure whenever fewer than 10 of the examples      *)
(* carry a valid category label, and whenever train or                     *)
(* train_from_database reports failure, the fitted pipeline and the        *)
(* is_trained flag are what they were before the call.                     *)
(***************************************************************************)
ReportsFailure ==
    last'.op \in {"train returned False", "train_from_database returned False"}

C15_FailedTrainingChangesNothing ==
    [][/\ \A data \in TrainingData, outcome \in TrainOutcomes :
              (train(data, outcome) /\ data.spam + data.important < MinExamples)
              => ReportsFailure
       /\ ((\E data \in TrainingData, outcome \in TrainOutcomes : train(data, outcome))
           \/ (\E rows \in FeedbackRows, outcome \in TrainOutcomes :
                   train_from_database(rows, outcome)))
          /\ ReportsFailure
          => /\ trainer'.pipeline = trainer.pipeline
             /\ trainer'.is_trained = trainer.is_trained]_vars

(***************************************************************************)
(* C16: the mood in the snapshot written by refresh_global_stats is that   *)
(* of the first rule that matches, in this order, on the counts of the     *)
(* active categorized messages: total = 0, Balanced; total < 20, Zen;      *)
(* important / total > 0.3, On Fire; (promotions + ads + spam) / total >   *)
(* 0.5, Shopaholic; social / total > 0.4, Socialite; newsletter / total >  *)
(* 0.4, News Junkie; personal / total > 0.3, Loved; otherwise Chill.  The  *)
(* ratios are compared as fractions (n / total > 3/10 iff 10 n > 3 total). *)
(***************************************************************************)
Holding(cats) ==
    Cardinality({i \in 1..Len(emails) :
                    IsActive(emails[i]) /\ emails[i].category \in cats})

MoodRules ==
    LET total == Holding(EmailCategory)
    IN  << <<total = 0, "Balanced">>,
           <<total < 20, "Zen">>,
           <<10 * Holding({"important"}) > 3 * total, "On Fire">>,
           <<10 * Holding({"promotions", "ads", "spam"}) > 5 * total, "Shopaholic">>,
           <<10 * Holding({"social"}) > 4 * total, "Socialite">>,
           <<10 * Holding({"newsletter"}) > 4 * total, "News Junkie">>,
           <<10 * Holding({"personal"}) > 3 * total, "Loved">>,
           <<TRUE, "Chill">> >>

FirstMatching(rules) ==
    rules[CHOOSE i \in 1..Len(rules) :
              rules[i][1] /\ \A j \in 1..(i - 1) : ~rules[j][1]][2]

C16_MoodIsFirstMatchingRule ==
    [][refresh_global_stats => dashboard_cache'[1].mood = FirstMatching(MoodRules)]_vars

\* The important rule wins over the junk rule, which matches as well.
C16_Witness ==
    /\ dashboard_cache # <<>>
    /\ dashboard_cache[1].mood = "On Fire"
    /\ 10 * Holding({"promotions", "ads", "spam"}) > 5 * Holding(EmailCategory)

(***************************************************************************)
(* C17: in the snapshot refresh_all_stats writes, deletable is the number  *)
(* of active messages whose category is not protected (important,          *)
(* uncertain), and would_keep is total_emails minus deletable.             *)
(***************************************************************************)
C17_DeletableIsUnprotected ==
    last.op = "refresh_all_stats" =>
        /\ dashboard_cache[1].deletable = Cardinality({i \in Kept(emails) : ~Protected(emails[i])})
        /\ dashboard_cache[1].would_keep
               = dashboard_cache[1].total_emails - dashboard_cache[1].deletable

(***************************************************************************)
(* C18: the groups a grouped read returns (get_rich_sender_groups, and     *)
(* get_top_sender_groups) are in descending order of total, senders of     *)
(* equal total in the order of their addresses; they are at most `limit`;  *)
(* a group's total is the number of the sender's active messages, and its  *)
(* preview list has at most 5 messages and at most total messages.  Totals *)
(* 10, 5, 2 give three groups in that order with previews of 5, 5 and 2.   *)
(***************************************************************************)
GroupedRead == served # <<>> /\ served[1].page \in {"grouped", "top"}

SendersMatching(read_filter) ==
    {emails[i].sender_email :
        i \in {k \in Kept(emails) :
                  /\ read_filter = "unread" => emails[k].is_read = 0
                  /\ read_filter = "read" => emails[k].is_read = 1}}

SendersReturned(groups) == {groups[i].sender_email : i \in 1..Len(groups)}

C19_FilterSelectsSenders ==
    (served # <<>> /\ served[1].page = "grouped") =>
        \A groups \in {served[1].stats.groups},
           matching \in {SendersMatching(served[1].stats.read_filter)} :
            /\ SendersReturned(groups) \subseteq matching
            /\ Cardinality(SendersReturned(groups)) = Len(groups)
            /\ Len(groups) = Min(Cardinality(matching), served[1].stats.limit)

\* An unread-filtered read that leaves out a sender whose active messages
\* are all read, and returns another.
C19_Witness ==
    /\ served # <<>>
    /\ served[1].page = "grouped"
    /\ served[1].stats.read_filter = "unread"
    /\ served[1].stats.groups # <<>>
    /\ Len(served[1].stats.groups) < served[1].stats.limit
    /\ SendersMatching("all") \ SendersMatching("unread") # {}

(***************************************************************************)
(* C20: the status of sync_state is one of idle, fetching, completed,      *)
(* stopped, error, and it changes only from idle to fetching, from         *)
(* fetching to completed, stopped or error, and from completed, stopped or *)
(* error to fetching, by a fetch request that is accepted; once completed  *)
(* it does not become error or stopped.                                    *)
(***************************************************************************)
SyncStatuses == {"idle", "fetching", "completed", "stopped", "error"}

SyncTerminal == {"completed", "stopped", "error"}

SyncTransitions ==
    {<<"idle", "fetching">>}
    \cup {<<"fetching", t>> : t \in SyncTerminal}
    \cup {<<t, "fetching">> : t \in SyncTerminal}

C20_SyncStatusTransitions ==
    [][/\ sync_state'.status \in SyncStatuses
       /\ sync_state'.status # sync_state.status =>
              /\ <<sync_state.status, sync_state'.status>> \in SyncTransitions
              /\ sync_state'.status = "fetching" => last'.op = "api_fetch_emails"]_vars

(***************************************************************************)
(* C21: when the stop event is set while the status is fetching, the       *)
(* status the sync ends with is stopped, never completed.  (The event      *)
(* stays set as long as the status is fetching: only an accepted fetch     *)
(* clears it.  A sync that ends in its except clause is not held against   *)
(* the claim.)                                                             *)
(***************************************************************************)
C21_StopEndsStopped ==
    [][(sync_state.status = "fetching" /\ sync_stop_event)
          => sync_state'.status # "completed"]_vars

(***************************************************************************)
(* C22: a provider call under _exponential_backoff terminates.  func() is  *)
(* called at most max_retries (5) times; a further call is made only after *)
(* a transient error (HTTP 429 or a 5xx); the first success is what the    *)
(* call returns; an error that is not transient is raised at once, with no *)
(* further call; and when the last failure is a transient one, the call    *)
(* ends by raising.                                                        *)
(***************************************************************************)
TransientError(status) == status = 429 \/ (500 <= status /\ status <= 599)

C22_Attempts ==
    backoff # <<>> =>
        \A call \in {backoff[1]} :
            /\ Len(call.outcomes) <= 5
            /\ \A k \in 1..(Len(call.outcomes) - 1) : TransientError(call.outcomes[k])
            /\ \A k \in 1..Len(call.outcomes) :
                   call.outcomes[k] = 200 =>
                       /\ k = Len(call.outcomes)
                       /\ call.result = [kind |-> "returned", value |-> 200]
            /\ \A k \in 1..Len(call.outcomes) :
                   (call.outcomes[k] # 200 /\ ~TransientError(call.outcomes[k])) =>
                       /\ k = Len(call.outcomes)
                       /\ call.result = [kind |-> "raised", value |-> call.outcomes[k]]
            /\ call.result.kind = "returned" =>
                   call.outcomes # <<>> /\ call.outcomes[Len(call.outcomes)] = 200
            /\ (call.result # Pending /\ call.outcomes # <<>>
                /\ TransientError(call.outcomes[Len(call.outcomes)])) =>
                   call.result.kind = "raised"

C22_BackoffTerminates ==
    /\ []C22_Attempts
    /\ (backoff # <<>>) ~> (backoff # <<>> /\ backoff[1].result # Pending)

\* Five transient failures, and the terminal failure after them.
C22_Witness ==
    /\ backoff # <<>>
    /\ Len(backoff[1].outcomes) = 5
    /\ \A k \in 1..5 : TransientError(backoff[1].outcomes[k])
    /\ backoff[1].result = [kind |-> "raised", value |-> max_retries]
(***************************************************************************)
(* C23.  Every snapshot refresh_all_stats writes is computed from one      *)
(* single state of the message store, also when saves, deletions or a      *)
(* second refresh_all_stats interleave with it: the categories, the        *)
(* leaderboard, total_senders and top_senders of one snapshot never come   *)
(* from different store states.                                            *)
(***************************************************************************)
\* Every content the emails table can have in SpecInterleave.
FetchedStores ==
    {MarkDeleted(InsertAll(<<>>, batch), email_ids) :
        batch \in SeqsUpTo(Fetched, MaxId), email_ids \in SUBSET Ids}

\* The snapshots refresh_all_stats computes when nothing interleaves.
OneStoreSnapshots ==
    {DashboardData(table, RefreshSenderStats(<<>>, table)) : table \in FetchedStores}

C23_SnapshotOfOneStoreState ==
    [][stepwise_set_setting => dashboard_cache'[1] \in OneStoreSnapshots]_vars
(***************************************************************************)
(* C24.  Every operation that logically deletes a message (single delete,  *)
(* delete by ids, by sender, by category, feedback with decision 'delete') *)
(* schedules a refresh: when a step turns an active message into a deleted *)
(* one, a refresh timer is waiting after it, so that the snapshot comes to *)
(* equal the one recomputed from the store.                                *)
(***************************************************************************)
LogicallyDeletes(before, after) ==
    \E i \in 1..Len(before), j \in 1..Len(after) :
        /\ before[i].id = after[j].id
        /\ ~Deleted(before[i])
        /\ Deleted(after[j])

C24_DeletionSchedulesRefresh ==
    [][LogicallyDeletes(emails, emails') =>
          /\ refresh_timer' # 0
          /\ refresh_timer' \in Waiting(timers')]_vars
(***************************************************************************)
(* C25.  After any sequence of non-fresh syncs that end completed, each    *)
(* with any max_emails quota, incremental sync leaves no gap: every        *)
(* provider message whose timestamp lies between the persisted             *)
(* sync_min_date and sync_max_date is in the message store.                *)
(***************************************************************************)
Stored(table) == {table[i].id : i \in 1..Len(table)}

C25_NoGapBetweenWatermarks ==
    \A ts \in mailbox :
        (sync_window.min # 0 /\ sync_window.min <= ts /\ ts <= sync_window.max)
            => ts \in Stored(emails)
(***************************************************************************)
(* C26.  Once mark_emails_deleted has been applied to a message id, the    *)
(* message stays out of the active set after any later upsert of the same  *)
(* id (save_email, or save_emails_batch of a sync): no step turns a        *)
(* logically deleted message back into an active one.                      *)
(***************************************************************************)
C26_DeletionSurvivesUpsert ==
    [][\A i \in 1..Len(emails), j \in 1..Len(emails') :
          (emails[i].id = emails'[j].id /\ ~IsActive(emails[i]))
              => ~IsActive(emails'[j])]_vars
(***************************************************************************)
(* C27.  Whenever the sync status is observed as completed                 *)
(* (GET /api/fetch/status), refresh_all_stats of that sync has already     *)
(* finished: no background_sync thread is still before or inside its       *)
(* db.refresh_all_stats() call, so the dashboard cache read at that moment *)
(* reflects every message the sync persisted.                              *)
(***************************************************************************)
ObservesCompleted ==
    /\ served' # served
    /\ served' # <<>>
    /\ served'[1].page = "api_fetch_status"
    /\ served'[1].stats[1].status = "completed"

C27_CompletedAfterRefresh ==
    [][ObservesCompleted =>
          \A i \in 1..Len(sync_threads) : sync_threads[i].pc # "refreshing"]_vars
(***************************************************************************)
(* C28.  At most one background sync thread runs at any time, also when    *)
(* two fetch requests are handled concurrently; and a fetch request that   *)
(* arrives while the status is fetching is rejected and changes neither    *)
(* sync_state nor the stop signal.                                         *)
(***************************************************************************)
Running(threads) == {i \in 1..Len(threads) : threads[i].pc # "done"}

C28_Rejected ==
    (sync_state.status = "fetching" /\ last'.op = "api_fetch_emails refused"
                                    /\ last.op # "api_fetch_emails refused")
        => UNCHANGED <<sync_state, sync_stop_event, sync_threads, fetch_requests>>

C28_OneSyncThread ==
    /\ [](Cardinality(Running(sync_threads)) <= 1)
    /\ [][C28_Rejected]_vars

(***************************************************************************)
(* C29.  At most one refresh timer is pending at any time, also when       *)
(* trigger_background_refresh is called concurrently from several request  *)
(* threads: every timer that was replaced is cancelled and never runs      *)
(* refresh_all_stats.                                                      *)
(***************************************************************************)
C29_OnePendingTimer == Cardinality(Waiting(timers)) <= 1
(***************************************************************************)
(* C30.  The unsubscribe_link and unsubscribe_email reported for a         *)
(* subscription candidate are those of an active message of that sender,   *)
(* never those of a logically deleted one.                                 *)
(***************************************************************************)
C30_UnsubscribeOfActiveMessage ==
    \A g \in Range(get_subscription_stats(emails, Len(emails))) :
        \E i \in 1..Len(emails) :
            /\ IsActive(emails[i])
            /\ emails[i].sender_email = g.sender_email
            /\ emails[i].unsubscribe_link = g.unsubscribe_link
            /\ emails[i].unsubscribe_email = g.unsubscribe_email

====
